---- MODULE Spec2Model ----
(***************************************************************************)
(* Stock analyzer backend: the sector-aware value scorer, the RSI tool,    *)
(* the three-stage crew (quantitative, research, decision) and the result  *)
(* parser with its missing-data confidence downgrade.                      *)
(*                                                                         *)
(* Numbers.  P/E and Debt/Equity are modelled on the integer grid (every   *)
(* threshold the code compares them with is an integer, 0.3 * normal_max   *)
(* included for every benchmark of the table).  ROE is a decimal fraction  *)
(* in the code (0.15 for 15%); the model counts it in hundredths, so the   *)
(* thresholds 0.20 / 0.15 / 0.10 are 20 / 15 / 10 and the sentinel -1 is   *)
(* -100.  A metric is an optional number: [some |-> FALSE] is None.        *)
(***************************************************************************)
EXTENDS Integers, Sequences, FiniteSets, TLC

VARIABLES
    entry,      \* the entry point's read of the ticker typed or posted
    pc,         \* position of the run
    mode,       \* entry point: "cli" (main.analyze_stock) or "api" (api.analyze)
    hist,       \* the price provider's history for the ticker
    info,       \* the fundamentals providers' data for the ticker
    priceOut,   \* what GetStockPriceTool._run returned
    fundOut,    \* what GetFundamentalsTool._run returned
    scoreIn,    \* arguments of CalculateValueScoreTool._run
    scoreOut,   \* what CalculateValueScoreTool._run returned
    quant,      \* verdict of the quantitative task
    research,   \* sentiment of the research task
    applied,    \* decision-matrix row the decision task applied
    finalText,  \* crew.kickoff(): the decision task's text
    parsed,     \* decision / confidence / risk read from the text
    record,     \* the returned record, after the downgrade
    log,        \* analysis_log.txt, the reports appended to it
    csv,        \* analysis_summary.csv: whether it exists, and its rows
    benchmarks, \* the module-level benchmark table and default of the scorer
    tickers,    \* analyze_multiple_stocks: the tickers submitted
    parallel,   \* its mode
    max_workers, \* size of its thread pool
    runs,       \* the analyze_stock call of each submission
    future_to_ticker, \* its dict from future to ticker
    results,    \* its list of entries
    completed,  \* its count of collected futures
    next,       \* the next submission to submit (parallel) or to run (sequential)
    bpc         \* position of analyze_multiple_stocks

vars == <<entry, pc, mode, hist, info, priceOut, fundOut, scoreIn, scoreOut,
          quant, research, applied, finalText, parsed, record, log, csv,
          benchmarks, tickers, parallel, max_workers, runs, future_to_ticker,
          results, completed, next, bpc>>

files == <<log, csv>>

\* the state of one analysis run, the files apart
single == <<entry, pc, mode, hist, info, priceOut, fundOut, scoreIn, scoreOut,
            quant, research, applied, finalText, parsed, record>>

\* the state of analyze_multiple_stocks
batch == <<tickers, parallel, max_workers, runs, future_to_ticker, results,
           completed, next, bpc>>

----------------------------------------------------------------------------
(* Optional numbers *)

None == [some |-> FALSE, val |-> 0]

Num(v) == [some |-> TRUE, val |-> v]

\* hundredths per unit of ROE
ROE_SCALE == 100

----------------------------------------------------------------------------
(* tools_hybrid.py: sector benchmarks *)

SectorKeys ==
    {"Financial Services", "Banking", "Industrials", "Utilities",
     "Real Estate", "Energy", "Technology", "Consumer Cyclical",
     "Healthcare", "Consumer Defensive", "Basic Materials",
     "Communication Services"}

Bench(n, r) == [normal_max |-> n, risky_above |-> r]

SECTOR_DEBT_BENCHMARKS ==
    [s \in SectorKeys |->
        CASE s = "Financial Services"     -> Bench(500, 1000)
          [] s = "Banking"                -> Bench(500, 1000)
          [] s = "Industrials"            -> Bench(150, 300)
          [] s = "Utilities"              -> Bench(200, 400)
          [] s = "Real Estate"            -> Bench(200, 400)
          [] s = "Energy"                 -> Bench(100, 200)
          [] s = "Technology"             -> Bench(50, 100)
          [] s = "Consumer Cyclical"      -> Bench(80, 150)
          [] s = "Healthcare"             -> Bench(60, 120)
          [] s = "Consumer Defensive"     -> Bench(60, 120)
          [] s = "Basic Materials"        -> Bench(80, 150)
          [] s = "Communication Services" -> Bench(100, 200)]

DEFAULT_DEBT_BENCHMARK == Bench(80, 150)

\* the two module-level dicts as the import of tools_hybrid leaves them
Loaded == [table |-> SECTOR_DEBT_BENCHMARKS, default |-> DEFAULT_DEBT_BENCHMARK]

\* a lookup that ignores the case of the sector name
BenchmarkGetFolded(sector) ==
    LET key == IF sector = "technology" THEN "Technology" ELSE sector IN
    IF key \in DOMAIN benchmarks.table
    THEN benchmarks.table[key]
    ELSE benchmarks.default

\* SECTOR_DEBT_BENCHMARKS.get(sector, DEFAULT_DEBT_BENCHMARK), on the dicts
\* as they are at the call
BenchmarkGet(sector) ==
    IF sector \in DOMAIN benchmarks.table
    THEN benchmarks.table[sector]
    ELSE benchmarks.default

----------------------------------------------------------------------------
(* tools_hybrid.py: CalculateValueScoreTool._run *)

W_PE == 35
W_ROE == 35
W_DE == 30

\* IsNA without the sentinel: only None counts as missing
IsNAOnlyNone(x, unit) == ~x.some

\* `x == -1 or x is None`, the sentinel in the unit of the metric
IsNA(x, unit) == (x.some /\ x.val = -1 * unit) \/ ~x.some

Detail(text) == [text |-> text, sector |-> "", threshold |-> {}]

DebtDetail(text, sector, named) ==
    [text |-> text, sector |-> sector, threshold |-> named]

\* a scored block of a present metric
Tier(pts, weight, detail) ==
    [pts |-> pts, max |-> weight, warnings |-> <<>>, details |-> <<detail>>]

\* a skipped block of a missing metric
Skipped(warning) ==
    [pts |-> 0, max |-> 0, details |-> <<>>, warnings |-> <<warning>>]

\* ScorePE with each P/E threshold inside the tier below it
ScorePEInclusive(pe_ratio) ==
    IF IsNA(pe_ratio, 1)
    THEN Skipped("P/E is N/A - P/E score skipped (0/35)")
    ELSE LET v == pe_ratio.val IN
         IF v <= 15 THEN Tier(35, W_PE, Detail("Excellent P/E (undervalued)"))
         ELSE IF v <= 20 THEN Tier(25, W_PE, Detail("Good P/E"))
         ELSE IF v <= 30 THEN Tier(10, W_PE, Detail("Fair P/E"))
         ELSE Tier(0, W_PE, Detail("High P/E - overvaluation risk"))

\* ScorePE with no points for a negative P/E
ScorePENegativeZero(pe_ratio) ==
    IF IsNA(pe_ratio, 1)
    THEN Skipped("P/E is N/A - P/E score skipped (0/35)")
    ELSE LET v == pe_ratio.val IN
         IF v < 0 THEN Tier(0, W_PE, Detail("High P/E - overvaluation risk"))
         ELSE IF v < 15 THEN Tier(35, W_PE, Detail("Excellent P/E (undervalued)"))
         ELSE IF v < 20 THEN Tier(25, W_PE, Detail("Good P/E"))
         ELSE IF v < 30 THEN Tier(10, W_PE, Detail("Fair P/E"))
         ELSE Tier(0, W_PE, Detail("High P/E - overvaluation risk"))

\* the P/E block: <<points, weight counted, details, warnings>>
ScorePE(pe_ratio) ==
    IF IsNA(pe_ratio, 1)
    THEN [pts |-> 0, max |-> 0, details |-> <<>>,
          warnings |-> <<"P/E is N/A - P/E score skipped (0/35)">>]
    ELSE LET v == pe_ratio.val IN
         IF v < 15
         THEN [pts |-> 35, max |-> W_PE, warnings |-> <<>>,
               details |-> <<Detail("Excellent P/E (undervalued)")>>]
         ELSE IF v < 20
         THEN [pts |-> 25, max |-> W_PE, warnings |-> <<>>,
               details |-> <<Detail("Good P/E")>>]
         ELSE IF v < 30
         THEN [pts |-> 10, max |-> W_PE, warnings |-> <<>>,
               details |-> <<Detail("Fair P/E")>>]
         ELSE [pts |-> 0, max |-> W_PE, warnings |-> <<>>,
               details |-> <<Detail("High P/E - overvaluation risk")>>]

\* ScoreROE with each ROE threshold inside the tier above it
ScoreROEInclusive(roe) ==
    IF IsNA(roe, ROE_SCALE)
    THEN Skipped("ROE is N/A - ROE score skipped (0/35)")
    ELSE LET v == roe.val IN
         IF v >= 20
         THEN Tier(35, W_ROE, Detail("Excellent ROE - strong management"))
         ELSE IF v >= 15 THEN Tier(25, W_ROE, Detail("Good ROE"))
         ELSE IF v >= 10 THEN Tier(10, W_ROE, Detail("Fair ROE"))
         ELSE Tier(0, W_ROE, Detail("Low ROE - efficiency concerns"))

\* the ROE block; thresholds 0.20, 0.15, 0.10 in hundredths
ScoreROE(roe) ==
    IF IsNA(roe, ROE_SCALE)
    THEN [pts |-> 0, max |-> 0, details |-> <<>>,
          warnings |-> <<"ROE is N/A - ROE score skipped (0/35)">>]
    ELSE LET v == roe.val IN
         IF v > 20
         THEN [pts |-> 35, max |-> W_ROE, warnings |-> <<>>,
               details |-> <<Detail("Excellent ROE - strong management")>>]
         ELSE IF v > 15
         THEN [pts |-> 25, max |-> W_ROE, warnings |-> <<>>,
               details |-> <<Detail("Good ROE")>>]
         ELSE IF v > 10
         THEN [pts |-> 10, max |-> W_ROE, warnings |-> <<>>,
               details |-> <<Detail("Fair ROE")>>]
         ELSE [pts |-> 0, max |-> W_ROE, warnings |-> <<>>,
               details |-> <<Detail("Low ROE - efficiency concerns")>>]

\* ScoreDE whose risky tier does not name the threshold
ScoreDEUnnamed(debt_equity, sector) ==
    IF IsNA(debt_equity, 1)
    THEN Skipped("Debt/Equity is N/A - D/E score skipped (0/30)")
    ELSE LET benchmark == BenchmarkGet(sector)
             v         == debt_equity.val
         IN
         IF 10 * v < 3 * benchmark.normal_max
         THEN Tier(30, W_DE, DebtDetail("Low debt - very safe", sector, {}))
         ELSE IF v < benchmark.normal_max
         THEN Tier(20, W_DE, DebtDetail("Normal debt - acceptable", sector, {}))
         ELSE IF v < benchmark.risky_above
         THEN Tier(10, W_DE, DebtDetail("Elevated debt - monitor", sector, {}))
         ELSE Tier(0, W_DE, DebtDetail("High debt - risky", sector, {}))

\* ScoreDE that scores a present Debt/Equity without counting its weight
ScoreDEUncounted(debt_equity, sector) ==
    IF IsNA(debt_equity, 1)
    THEN Skipped("Debt/Equity is N/A - D/E score skipped (0/30)")
    ELSE LET benchmark == BenchmarkGet(sector)
             v         == debt_equity.val
         IN
         IF 10 * v < 3 * benchmark.normal_max
         THEN Tier(30, 0, DebtDetail("Low debt - very safe", sector, {}))
         ELSE IF v < benchmark.normal_max
         THEN Tier(20, 0, DebtDetail("Normal debt - acceptable", sector, {}))
         ELSE IF v < benchmark.risky_above
         THEN Tier(10, 0, DebtDetail("Elevated debt - monitor", sector, {}))
         ELSE Tier(0, 0, DebtDetail("High debt - risky", sector,
                                    {benchmark.risky_above}))

\* the Debt/Equity block; debt_equity < normal_max * 0.3 is
\* 10 * debt_equity < 3 * normal_max
ScoreDE(debt_equity, sector) ==
    IF IsNA(debt_equity, 1)
    THEN [pts |-> 0, max |-> 0, details |-> <<>>,
          warnings |-> <<"Debt/Equity is N/A - D/E score skipped (0/30)">>]
    ELSE LET benchmark   == BenchmarkGet(sector)
             normal_max  == benchmark.normal_max
             risky_above == benchmark.risky_above
             v           == debt_equity.val
         IN
         IF 10 * v < 3 * normal_max
         THEN [pts |-> 30, max |-> W_DE, warnings |-> <<>>,
               details |-> <<DebtDetail("Low debt - very safe", sector, {})>>]
         ELSE IF v < normal_max
         THEN [pts |-> 20, max |-> W_DE, warnings |-> <<>>,
               details |-> <<DebtDetail("Normal debt - acceptable", sector, {})>>]
         ELSE IF v < risky_above
         THEN [pts |-> 10, max |-> W_DE, warnings |-> <<>>,
               details |-> <<DebtDetail("Elevated debt - monitor", sector, {})>>]
         ELSE [pts |-> 0, max |-> W_DE, warnings |-> <<>>,
               details |-> <<DebtDetail("High debt - risky", sector,
                                        {risky_above})>>]

\* Normalize with round() in the place of int()
NormalizeRounded(score, max_possible) ==
    IF max_possible > 0
    THEN (2 * score * 100 + max_possible) \div (2 * max_possible)
    ELSE 0

\* int((score / max_possible) * 100) if max_possible > 0 else 0.  On every
\* (score, max_possible) the three blocks can produce, the float product
\* truncates to the exact floor of 100 * score / max_possible.
Normalize(score, max_possible) ==
    IF max_possible > 0 THEN (score * 100) \div max_possible ELSE 0

\* CalculateValueScore with every weight counted, metric present or not
CalculateValueScoreFullWeight(pe_ratio, roe, debt_equity, sector) ==
    LET p == ScorePE(pe_ratio)
        r == ScoreROE(roe)
        d == ScoreDE(debt_equity, sector)
        score        == p.pts + r.pts + d.pts
        max_possible == W_PE + W_ROE + W_DE
        warnings     == p.warnings \o r.warnings \o d.warnings
    IN [sector           |-> sector,
        score            |-> score,
        max_possible     |-> max_possible,
        normalized_score |-> (score * 100) \div max_possible,
        details          |-> p.details \o r.details \o d.details,
        warnings         |-> warnings,
        marker           |-> warnings # <<>>]

CalculateValueScore(pe_ratio, roe, debt_equity, sector) ==
    LET p == ScorePE(pe_ratio)
        r == ScoreROE(roe)
        d == ScoreDE(debt_equity, sector)
        score        == p.pts + r.pts + d.pts
        max_possible == p.max + r.max + d.max
        warnings     == p.warnings \o r.warnings \o d.warnings
    IN [sector           |-> sector,
        score            |-> score,
        max_possible     |-> max_possible,
        normalized_score |-> Normalize(score, max_possible),
        details          |-> p.details \o r.details \o d.details,
        warnings         |-> warnings,
        \* warning_str carries the marker iff warnings is non-empty
        marker           |-> warnings # <<>>]

----------------------------------------------------------------------------
(* tools.py: the other copy of CalculateValueScoreTool._run *)

\* the table of tools.py with the Technology row of an older revision
ToolsBenchmarksDrifted ==
    [SECTOR_DEBT_BENCHMARKS EXCEPT !["Technology"] = Bench(60, 120)]

\* tools.py's own SECTOR_DEBT_BENCHMARKS; no code of tools.py assigns to it
ToolsSECTOR_DEBT_BENCHMARKS ==
    [s \in SectorKeys |->
        IF s \in {"Financial Services", "Banking"} THEN Bench(500, 1000)
        ELSE IF s = "Industrials" THEN Bench(150, 300)
        ELSE IF s \in {"Utilities", "Real Estate"} THEN Bench(200, 400)
        ELSE IF s \in {"Energy", "Communication Services"} THEN Bench(100, 200)
        ELSE IF s = "Technology" THEN Bench(50, 100)
        ELSE IF s \in {"Consumer Cyclical", "Basic Materials"} THEN Bench(80, 150)
        ELSE Bench(60, 120)]

ToolsDEFAULT_DEBT_BENCHMARK == Bench(80, 150)

\* the four locals of _run before the first block
ToolsStart == [score |-> 0, max_possible |-> 0, details |-> <<>>, warnings |-> <<>>]

\* warnings.append(warning)
ToolsWarn(acc, warning) ==
    [acc EXCEPT !.warnings = Append(@, warning)]

\* max_possible += weight; score += pts; details.append(detail)
ToolsAdd(acc, weight, pts, detail) ==
    [acc EXCEPT !.max_possible = @ + weight,
                !.score = @ + pts,
                !.details = Append(@, detail)]

\* the P/E block of tools.py on the locals acc
ToolsPE(acc, pe_ratio) ==
    IF (pe_ratio.some /\ pe_ratio.val = -1) \/ ~pe_ratio.some
    THEN ToolsWarn(acc, "P/E is N/A - P/E score skipped (0/35)")
    ELSE IF pe_ratio.val < 15
    THEN ToolsAdd(acc, 35, 35, Detail("Excellent P/E (undervalued)"))
    ELSE IF pe_ratio.val < 20
    THEN ToolsAdd(acc, 35, 25, Detail("Good P/E"))
    ELSE IF pe_ratio.val < 30
    THEN ToolsAdd(acc, 35, 10, Detail("Fair P/E"))
    ELSE ToolsAdd(acc, 35, 0, Detail("High P/E - overvaluation risk"))

\* the ROE block of tools.py; roe in hundredths
ToolsROE(acc, roe) ==
    IF (roe.some /\ roe.val = -1 * ROE_SCALE) \/ ~roe.some
    THEN ToolsWarn(acc, "ROE is N/A - ROE score skipped (0/35)")
    ELSE IF roe.val > 20
    THEN ToolsAdd(acc, 35, 35, Detail("Excellent ROE - strong management"))
    ELSE IF roe.val > 15
    THEN ToolsAdd(acc, 35, 25, Detail("Good ROE"))
    ELSE IF roe.val > 10
    THEN ToolsAdd(acc, 35, 10, Detail("Fair ROE"))
    ELSE ToolsAdd(acc, 35, 0, Detail("Low ROE - efficiency concerns"))

\* the Debt/Equity block of tools.py on the benchmark looked up at the top
\* of _run
ToolsDE(acc, debt_equity, sector, benchmark) ==
    IF (debt_equity.some /\ debt_equity.val = -1) \/ ~debt_equity.some
    THEN ToolsWarn(acc, "Debt/Equity is N/A - D/E score skipped (0/30)")
    ELSE IF 10 * debt_equity.val < 3 * benchmark.normal_max
    THEN ToolsAdd(acc, 30, 30, DebtDetail("Low debt - very safe", sector, {}))
    ELSE IF debt_equity.val < benchmark.normal_max
    THEN ToolsAdd(acc, 30, 20,
                  DebtDetail("Normal debt - acceptable", sector, {}))
    ELSE IF debt_equity.val < benchmark.risky_above
    THEN ToolsAdd(acc, 30, 10,
                  DebtDetail("Elevated debt - monitor", sector, {}))
    ELSE ToolsAdd(acc, 30, 0,
                  DebtDetail("High debt - risky", sector,
                             {benchmark.risky_above}))

ToolsCalculateValueScore(pe_ratio, roe, debt_equity, sector) ==
    LET benchmark ==
            IF sector \in DOMAIN ToolsSECTOR_DEBT_BENCHMARKS
            THEN ToolsSECTOR_DEBT_BENCHMARKS[sector]
            ELSE ToolsDEFAULT_DEBT_BENCHMARK
        acc == ToolsDE(ToolsROE(ToolsPE(ToolsStart, pe_ratio), roe),
                       debt_equity, sector, benchmark)
    IN [sector           |-> sector,
        score            |-> acc.score,
        max_possible     |-> acc.max_possible,
        normalized_score |-> IF acc.max_possible > 0
                             THEN (acc.score * 100) \div acc.max_possible
                             ELSE 0,
        details          |-> acc.details,
        warnings         |-> acc.warnings,
        marker           |-> Len(acc.warnings) > 0]

----------------------------------------------------------------------------
(* tools_hybrid.py: GetStockPriceTool._run *)

\* rolling(window=14)
RSI_WINDOW == 14

\* A real number as a fraction, or NaN
NaN == [nan |-> TRUE, num |-> 0, den |-> 1]

Frac(n, d) == [nan |-> FALSE, num |-> n, den |-> d]

\* x < t for a float x and an integer t: every comparison with NaN is False
Less(x, t) == ~x.nan /\ x.num < t * x.den

\* The last element of the two rolling means and the RSI made of them.
\* h.n closing prices; h.gain and h.loss are the sums of the positive and of
\* the negated negative differences over the trailing window (the first
\* difference is NaN and counts as 0 in both).  With fewer than 14 rows the
\* rolling mean is NaN; 0/0 is NaN; x/0 is inf and 100 - 100/(1 + inf) = 100.
\* The two means share the divisor 14, so rs = gain / loss and
\* 100 - 100/(1 + rs) = 100 * gain / (gain + loss).
Rsi(h) ==
    IF h.n < RSI_WINDOW THEN NaN
    ELSE IF h.loss = 0 /\ h.gain = 0 THEN NaN
    ELSE IF h.loss = 0 THEN Frac(100, 1)
    ELSE Frac(100 * h.gain, h.gain + h.loss)

\* x <= t
LessEq(x, t) == ~x.nan /\ x.num <= t * x.den

\* RsiSignal with the upper bound of every band included in it
RsiSignalInclusive(rsi) ==
    IF LessEq(rsi, 30) THEN "OVERSOLD"
    ELSE IF LessEq(rsi, 45) THEN "Slightly oversold"
    ELSE IF LessEq(rsi, 55) THEN "NEUTRAL"
    ELSE IF LessEq(rsi, 70) THEN "Slightly overbought"
    ELSE "OVERBOUGHT"

RsiSignal(rsi) ==
    IF Less(rsi, 30) THEN "OVERSOLD"
    ELSE IF Less(rsi, 45) THEN "Slightly oversold"
    ELSE IF Less(rsi, 55) THEN "NEUTRAL"
    ELSE IF Less(rsi, 70) THEN "Slightly overbought"
    ELSE "OVERBOUGHT"

\* f"{rsi:.2f}": hundredths, rounded to nearest
Fmt2(x) == IF x.nan THEN NaN
           ELSE Frac((200 * x.num + x.den) \div (2 * x.den), 100)

NoPrice == [status |-> "none", rsi |-> NaN, rsi_text |-> NaN,
            rsi_signal |-> "", marker |-> FALSE]

\* rsi is the local of _run; the returned string holds rsi_text and
\* rsi_signal.  No branch writes the missing-data marker.
GetStockPrice(h) ==
    IF h.raises
    THEN [NoPrice EXCEPT !.status = "Error fetching price data"]
    ELSE IF h.n = 0
    THEN [NoPrice EXCEPT !.status = "Error: No data found"]
    ELSE LET rsi == Rsi(h) IN
         [status |-> "ok", rsi |-> rsi, rsi_text |-> Fmt2(rsi),
          rsi_signal |-> RsiSignal(rsi), marker |-> FALSE]

----------------------------------------------------------------------------
(* tools_hybrid.py: GetFundamentalsTool._run *)

Fallback(pe, roe, de) == [pe |-> pe, roe |-> roe, de |-> de]

\* roe in hundredths
SECTOR_FALLBACKS ==
    [s \in SectorKeys |->
        CASE s = "Financial Services"     -> Fallback(15, 14, 200)
          [] s = "Banking"                -> Fallback(15, 14, 200)
          [] s = "Industrials"            -> Fallback(25, 15, 80)
          [] s = "Energy"                 -> Fallback(12, 10, 60)
          [] s = "Technology"             -> Fallback(20, 20, 20)
          [] s = "Consumer Cyclical"      -> Fallback(30, 12, 50)
          [] s = "Healthcare"             -> Fallback(35, 18, 30)
          [] s = "Consumer Defensive"     -> Fallback(40, 15, 40)
          [] s = "Basic Materials"        -> Fallback(18, 12, 60)
          [] s = "Communication Services" -> Fallback(25, 12, 80)
          [] s = "Utilities"              -> Fallback(15, 10, 100)
          [] s = "Real Estate"            -> Fallback(20, 8, 150)]

\* Python truthiness of an optional float: None and 0 are falsy
Truthy(x) == x.some /\ x.val # 0

\* get_alpha_vantage_data found nothing (no key, no 'Symbol', an exception)
NoAV == [present |-> FALSE, sector |-> "", pe |-> None, roe |-> None,
         debt_equity |-> None]

NoFund == [status |-> "none", sector |-> "", pe |-> None, roe |-> None,
           debt_equity |-> None, estimated |-> {}, missing |-> <<>>,
           marker |-> FALSE]

\* the value of one metric after the three priorities, and whether the
\* sector average was used for it
Combine(av, avv, yfv, sector, fb) ==
    LET v == IF av.present /\ Truthy(avv) THEN avv ELSE yfv IN
    IF ~Truthy(v) /\ sector \in DOMAIN SECTOR_FALLBACKS
    THEN [v |-> Num(fb), est |-> TRUE]
    ELSE [v |-> v, est |-> FALSE]

\* i.av is get_alpha_vantage_data's result, the other fields are stock.info
\* (i.valid: regularMarketPrice is there; i.sector "Unknown" when absent).
\* A metric prints as N/A (None here) when it is falsy.
GetFundamentals(i) ==
    IF i.raises
    THEN [NoFund EXCEPT !.status = "Error fetching fundamentals"]
    ELSE IF ~i.valid
    THEN [NoFund EXCEPT !.status = "Error: Invalid ticker"]
    ELSE
    LET sector == IF i.av.present THEN i.av.sector ELSE i.sector
        fbs == IF sector \in DOMAIN SECTOR_FALLBACKS
               THEN SECTOR_FALLBACKS[sector] ELSE Fallback(0, 0, 0)
        pe  == Combine(i.av, i.av.pe, i.pe, sector, fbs.pe)
        roe == Combine(i.av, i.av.roe, i.roe, sector, fbs.roe)
        de  == Combine(i.av, i.av.debt_equity, i.debt_equity, sector, fbs.de)
        Shown(m) == IF Truthy(m.v) THEN m.v ELSE None
        Miss(m, name) == IF ~Truthy(m.v) /\ ~m.est THEN <<name>> ELSE <<>>
        missing == Miss(pe, "P/E") \o Miss(roe, "ROE")
                   \o Miss(de, "Debt/Equity")
    IN [status      |-> "ok",
        sector      |-> sector,
        pe          |-> Shown(pe),
        roe         |-> Shown(roe),
        debt_equity |-> Shown(de),
        estimated   |-> {m \in {"P/E", "ROE", "Debt/Equity"} :
                            \/ m = "P/E" /\ pe.est
                            \/ m = "ROE" /\ roe.est
                            \/ m = "Debt/Equity" /\ de.est},
        missing     |-> missing,
        \* missing_warning, the only place of the marker
        marker      |-> missing # <<>>]

----------------------------------------------------------------------------
(* tasks.py, agents.py: the rules the quantitative agent is given *)

Verdicts == {"BUY", "WATCH", "AVOID"}

Sentiments == {"BULLISH", "NEUTRAL", "BEARISH"}

\* x > t, t <= x <= u on the printed RSI; never true of nan or of no RSI
Greater(x, t) == ~x.nan /\ x.num > t * x.den

Between(x, t, u) == ~x.nan /\ x.num >= t * x.den /\ x.num <= u * x.den

\* create_quant_task, step 6: one line per verdict, no order among them
TaskRule(v, score, rsi) ==
    \/ v = "BUY"   /\ (score > 60 /\ Less(rsi, 45))
    \/ v = "WATCH" /\ ((score >= 40 /\ score <= 60) \/ Between(rsi, 45, 70))
    \/ v = "AVOID" /\ (score < 40 \/ Greater(rsi, 70))

\* quantitative_analyst backstory: AVOID names P/E > 40, not RSI > 70
BackstoryRule(v, score, rsi, pe) ==
    \/ v = "BUY"   /\ (score > 60 /\ Less(rsi, 45))
    \/ v = "WATCH" /\ ((score >= 40 /\ score <= 60) \/ Between(rsi, 45, 70))
    \/ v = "AVOID" /\ (score < 40 \/ (pe.some /\ pe.val > 40))

\* The verdicts an agent that obeys the rules it was given may report: any
\* verdict one of its rules names; any verdict at all when none applies.
QuantVerdicts(score, rsi, pe) ==
    LET named == {v \in Verdicts :
                    TaskRule(v, score, rsi) \/ BackstoryRule(v, score, rsi, pe)}
    IN IF named = {} THEN Verdicts ELSE named

----------------------------------------------------------------------------
(* tasks.py: create_decision_task, the decision matrix *)

Row(q, s, d, c) == [quant |-> q, research |-> s, decision |-> d,
                    confidence |-> c]

\* the matrix with the AVOID + BULLISH row resolved to AVOID
DECISION_MATRIX_AvoidWins ==
    {Row("BUY",   "BULLISH", "BUY",   "HIGH"),
     Row("BUY",   "NEUTRAL", "BUY",   "MEDIUM"),
     Row("BUY",   "BEARISH", "WATCH", "MEDIUM"),
     Row("WATCH", "BULLISH", "BUY",   "MEDIUM"),
     Row("WATCH", "NEUTRAL", "WATCH", "MEDIUM"),
     Row("WATCH", "BEARISH", "WATCH", "LOW"),
     Row("AVOID", "BULLISH", "AVOID", "LOW"),
     Row("AVOID", "NEUTRAL", "AVOID", "MEDIUM"),
     Row("AVOID", "BEARISH", "AVOID", "HIGH")}

DECISION_MATRIX ==
    {Row("BUY",   "BULLISH", "BUY",   "HIGH"),
     Row("BUY",   "NEUTRAL", "BUY",   "MEDIUM"),
     Row("BUY",   "BEARISH", "WATCH", "MEDIUM"),
     Row("WATCH", "BULLISH", "BUY",   "MEDIUM"),
     Row("WATCH", "NEUTRAL", "WATCH", "MEDIUM"),
     Row("WATCH", "BEARISH", "WATCH", "LOW"),
     Row("AVOID", "BULLISH", "WATCH", "LOW"),
     Row("AVOID", "NEUTRAL", "AVOID", "MEDIUM"),
     Row("AVOID", "BEARISH", "AVOID", "HIGH")}

\* the rows of the matrix that speak of (q, s)
MatrixRows(q, s) == {r \in DECISION_MATRIX : r.quant = q /\ r.research = s}

NoRow == Row("", "", "", "")

----------------------------------------------------------------------------
(* The final text and its parser: main.save_result, api.analyze.            *)
(* A text is a sequence of lines (split on newline), a line a sequence of   *)
(* tokens.  A token stands for a stretch of characters; Occurs says which   *)
(* of the strings the code searches for lie inside it.                      *)

\* the two code points the code searches for: U+26A0 U+FE0F
WarnSign == "WARNING SIGN"

DecisionLabels == <<"BUY", "SELL", "WATCH", "AVOID">>

LevelLabels == <<"HIGH", "MEDIUM", "LOW">>

\* str.upper() of a token
Upper(t) ==
    CASE t = "missing data"    -> "MISSING DATA"
      [] t = "Final Decision:" -> "FINAL DECISION:"
      [] t = "Confidence:"     -> "CONFIDENCE:"
      [] t = "Risk Level:"     -> "RISK LEVEL:"
      [] OTHER                 -> t

\* needle in token
Occurs(needle, t) ==
    \/ needle = t
    \/ <<needle, t>> \in {<<"LOW", "BELOW">>, <<"HIGH", "HIGHLIGHTS">>,
                          <<"BUY", "BUYBACK">>}

\* needle in line
In(needle, line) == \E k \in DOMAIN line : Occurs(needle, line[k])

\* str.upper() of a line
UpperLine(line) == [k \in DOMAIN line |-> Upper(line[k])]

\* a stretch of blanks
Space == " "

\* str.strip() of a line: the blanks at both ends go
RECURSIVE LStrip(_)
LStrip(line) ==
    IF line # <<>> /\ Head(line) = Space THEN LStrip(Tail(line)) ELSE line

RECURSIVE RStrip(_)
RStrip(line) ==
    IF line # <<>> /\ line[Len(line)] = Space
    THEN RStrip(SubSeq(line, 1, Len(line) - 1))
    ELSE line

StripLine(line) ==
    IF line = <<>> \/ (Head(line) # Space /\ line[Len(line)] # Space)
    THEN line
    ELSE RStrip(LStrip(line))

\* str.strip() of a text: the blank lines and the blanks before the first
\* and after the last character that is not white space go
RECURSIVE LStripText(_)
LStripText(text) ==
    IF text = <<>> THEN <<>>
    ELSE IF LStrip(Head(text)) = <<>> /\ Len(text) > 1
    THEN LStripText(Tail(text))
    ELSE <<LStrip(Head(text))>> \o Tail(text)

RECURSIVE RStripText(_)
RStripText(text) ==
    IF text = <<>> THEN <<>>
    ELSE IF RStrip(text[Len(text)]) = <<>> /\ Len(text) > 1
    THEN RStripText(SubSeq(text, 1, Len(text) - 1))
    ELSE SubSeq(text, 1, Len(text) - 1) \o <<RStrip(text[Len(text)])>>

StripText(text) == RStripText(LStripText(text))

\* the label that stands first in the line, whatever its place in the list
FirstLabelByPosition(labels, line_upper, old) ==
    IF \E i \in DOMAIN labels : In(labels[i], line_upper)
    THEN LET Here(k) == \E i \in DOMAIN labels : Occurs(labels[i], line_upper[k])
             k == CHOOSE k \in DOMAIN line_upper :
                      Here(k) /\ \A h \in 1..(k - 1) : ~Here(h)
         IN labels[CHOOSE i \in DOMAIN labels :
                       /\ Occurs(labels[i], line_upper[k])
                       /\ \A j \in 1..(i - 1) : ~Occurs(labels[j], line_upper[k])]
    ELSE old

\* for x in labels: if x in line_upper: value = x; break
FirstLabel(labels, line_upper, old) ==
    IF \E i \in DOMAIN labels : In(labels[i], line_upper)
    THEN labels[CHOOSE i \in DOMAIN labels :
                    /\ In(labels[i], line_upper)
                    /\ \A j \in 1..(i - 1) : ~In(labels[j], line_upper)]
    ELSE old

Unparsed == [decision |-> "UNKNOWN", confidence |-> "UNKNOWN",
             risk |-> "UNKNOWN"]

\* the body of the loop over the lines, line_upper computed once
ParseLine(line, acc) ==
    LET Body(line_upper) ==
            [decision   |-> IF In("FINAL DECISION:", line_upper)
                            THEN FirstLabel(DecisionLabels, line_upper,
                                            acc.decision)
                            ELSE acc.decision,
             confidence |-> IF In("CONFIDENCE:", line_upper)
                            THEN FirstLabel(LevelLabels, line_upper,
                                            acc.confidence)
                            ELSE acc.confidence,
             risk       |-> IF In("RISK LEVEL:", line_upper)
                            THEN FirstLabel(LevelLabels, line_upper, acc.risk)
                            ELSE acc.risk]
    IN CHOOSE parsed_data \in
           {Body(line_upper) : line_upper \in {StripLine(UpperLine(line))}} :
           TRUE

RECURSIVE ParseLines(_, _)
ParseLines(lines, acc) ==
    IF lines = <<>> THEN acc
    ELSE ParseLines(Tail(lines), ParseLine(Head(lines), acc))

\* "WARN" in result_text or "MISSING DATA" in result_text.upper()
MissingDataDetected(text) ==
    \E n \in DOMAIN text :
        In(WarnSign, text[n]) \/ In("MISSING DATA", UpperLine(text[n]))

\* the downgrade step going to the floor at once
ConfidenceDowngradeToFloor(confidence) ==
    IF confidence = "HIGH" THEN "LOW"
    ELSE IF confidence = "MEDIUM" THEN "LOW"
    ELSE confidence

\* the downgrade step that also takes UNKNOWN to LOW
ConfidenceDowngradeUnknown(confidence) ==
    IF confidence = "HIGH" THEN "MEDIUM"
    ELSE IF confidence \in {"MEDIUM", "UNKNOWN"} THEN "LOW"
    ELSE confidence

\* the downgrade step: HIGH -> MEDIUM, MEDIUM -> LOW, anything else kept
ConfidenceDowngrade(confidence) ==
    IF confidence = "HIGH" THEN "MEDIUM"
    ELSE IF confidence = "MEDIUM" THEN "LOW"
    ELSE confidence

\* main.save_result: parse, then downgrade on the text as returned
SaveResultRecord(text) ==
    LET p == ParseLines(text, Unparsed) IN
    [parsed |-> p,
     record |-> [p EXCEPT !.confidence =
                     IF MissingDataDetected(text)
                     THEN ConfidenceDowngrade(p.confidence)
                     ELSE p.confidence]]

\* the lines written to the log: the ANALYSIS line, then the result
LogEntry(ticker, result) == << <<"ANALYSIS:", ticker>> >> \o result

CsvHeader == <<"Timestamp", "Ticker", "Decision", "Confidence", "Risk Level">>

\* [timestamp, ticker, decision, confidence, risk]; the clock is left out
CsvRowOf(ticker, r) == <<"timestamp", ticker, r.decision, r.confidence, r.risk>>

\* [timestamp, ticker, decision, confidence, risk]; the clock and the ticker
\* of the one run are not told apart
CsvRow(r) == <<"timestamp", "ticker", r.decision, r.confidence, r.risk>>

\* what analyze_stock returns once save_result has returned
AnalyzeStockReturn(parsed_data) ==
    [status |-> "completed", parsed_data |-> parsed_data]

\* str.replace('</r>', '').replace('<r>', '') of a token: a tag inside a
\* stretch of characters goes and leaves the characters around it joined
RemoveTags(t) ==
    CASE t \in {"<r>", "</r>"}     -> ""
      [] t = "FINAL <r>DECISION:" -> "FINAL DECISION:"
      [] OTHER                    -> t

\* result_str.replace('</r>', '').replace('<r>', '').strip()
StripTags(text) ==
    StripText([n \in DOMAIN text |->
                  SelectSeq([k \in DOMAIN text[n] |-> RemoveTags(text[n][k])],
                            LAMBDA t : t # "")])

\* api.analyze, the three inner loops: the first of the labels, in the order
\* of the list, that is in the line
RECURSIVE ApiFirst(_, _, _)
ApiFirst(labels, line_upper, old) ==
    IF labels = <<>> THEN old
    ELSE IF In(Head(labels), line_upper) THEN Head(labels)
    ELSE ApiFirst(Tail(labels), line_upper, old)

\* api.analyze, the loop over result_str.split("\n") from line n on, with
\* the three locals in acc
RECURSIVE ApiScan(_, _, _)
ApiScan(result_str, n, acc) ==
    IF n > Len(result_str) THEN acc
    ELSE LET line_upper == StripLine(UpperLine(result_str[n]))
             decision   == IF In("FINAL DECISION:", line_upper)
                           THEN ApiFirst(<<"BUY", "SELL", "WATCH", "AVOID">>,
                                         line_upper, acc.decision)
                           ELSE acc.decision
             confidence == IF In("CONFIDENCE:", line_upper)
                           THEN ApiFirst(<<"HIGH", "MEDIUM", "LOW">>,
                                         line_upper, acc.confidence)
                           ELSE acc.confidence
             risk       == IF In("RISK LEVEL:", line_upper)
                           THEN ApiFirst(<<"HIGH", "MEDIUM", "LOW">>,
                                         line_upper, acc.risk)
                           ELSE acc.risk
         IN ApiScan(result_str, n + 1,
                    [decision |-> decision, confidence |-> confidence,
                     risk |-> risk])

\* api.analyze with the downgrade left out
ApiDowngradeNone(result_str, confidence) == confidence

\* api.analyze, the auto-downgrade on the text without tags
ApiDowngrade(result_str, confidence) ==
    IF \/ \E n \in DOMAIN result_str : In(WarnSign, result_str[n])
       \/ \E n \in DOMAIN result_str :
              In("MISSING DATA", UpperLine(result_str[n]))
    THEN CASE confidence = "HIGH"   -> "MEDIUM"
           [] confidence = "MEDIUM" -> "LOW"
           [] OTHER                 -> confidence
    ELSE confidence

\* api.analyze: its own scan and its own downgrade, on the text without
\* tags; nothing is written to the files
ApiAnalyzeRecord(text) ==
    LET result_str == StripTags(text)
        p == ApiScan(result_str, 1,
                     [decision |-> "UNKNOWN", confidence |-> "UNKNOWN",
                      risk |-> "UNKNOWN"])
    IN [parsed |-> p,
        record |-> [p EXCEPT !.confidence = ApiDowngrade(result_str, @)]]

\* tasks.py, RISK LEVEL rules of the decision task: HIGH only if the tool
\* flagged debt as risky or high, MEDIUM if any metric is N/A, otherwise the
\* agent's judgment.  The levels the rules admit.
RiskRule(flagged, missing) ==
    IF missing
    THEN {"MEDIUM"} \cup (IF flagged THEN {"HIGH"} ELSE {})
    ELSE IF flagged THEN {"HIGH", "MEDIUM", "LOW"} ELSE {"MEDIUM", "LOW"}

----------------------------------------------------------------------------
(* Inputs *)

\* how far around each threshold the scorer's inputs are drawn
Slack == 1

\* longest price history, largest sum of moves in the trailing window
MaxHist == 16
MaxMove == 20

Around(T) == UNION {(t - Slack)..(t + Slack) : t \in T}

Sectors == SectorKeys \cup {"Unknown", "technology"}

PEValues == {None} \cup {Num(v) : v \in {-5, -1, 0, 45} \cup Around({15, 20, 30})}

ROEValues == {None} \cup
             {Num(v) : v \in {-1 * ROE_SCALE, -5, 0} \cup Around({10, 15, 20})}

DEValues(sector) ==
    LET b == BenchmarkGet(sector) IN
    {None} \cup {Num(v) : v \in {-1, 0} \cup
                  Around({(3 * b.normal_max) \div 10, b.normal_max,
                          b.risky_above})}

ScoreInputs ==
    UNION {[pe_ratio : PEValues, roe : ROEValues,
            debt_equity : DEValues(s), sector : {s}] : s \in Sectors}

Hist(raises, n, gain, loss) ==
    [raises |-> raises, n |-> n, gain |-> gain, loss |-> loss]

\* what the price provider can hold for a ticker
Hists ==
    {Hist(TRUE, 0, 0, 0)} \cup
    {Hist(FALSE, n, g, l) : n \in 0..MaxHist, g \in 0..MaxMove,
                            l \in 0..MaxMove}

\* the histories one whole run is followed from
RunHists ==
    {Hist(TRUE, 0, 0, 0), Hist(FALSE, 0, 0, 0), Hist(FALSE, 10, 0, 0)}
    \cup {Hist(FALSE, MaxHist, m[1], m[2]) :
            m \in {<<0, 0>>, <<4, 6>>, <<5, 5>>, <<8, 2>>}}

Info(raises, valid, av, sector, pe, roe, de) ==
    [raises |-> raises, valid |-> valid, av |-> av, sector |-> sector,
     pe |-> pe, roe |-> roe, debt_equity |-> de]

AVData(sector, pe, roe, de) ==
    [present |-> TRUE, sector |-> sector, pe |-> pe, roe |-> roe,
     debt_equity |-> de]

\* the fundamentals one whole run is followed from
RunInfos ==
    {Info(TRUE, FALSE, NoAV, "Unknown", None, None, None),
     Info(FALSE, FALSE, NoAV, "Unknown", None, None, None),
     Info(FALSE, TRUE, AVData("Technology", Num(12), None, None),
          "Unknown", None, Num(22), Num(0)),
     Info(FALSE, TRUE, AVData("Unlisted", None, Num(12), None),
          "Technology", Num(25), None, None),
     Info(FALSE, TRUE, NoAV, "Unknown", Num(12), None, None)}
    \cup {Info(FALSE, TRUE, NoAV, s, p, r, d) :
            s \in {"Technology", "Unknown"},
            p \in {None, Num(12)},
            r \in {Num(8), Num(12)},
            d \in {Num(20), Num(120)}}

\* The texts the decision task is followed with: a decision, a confidence
\* and a risk line, each any label or left out, a line about missing data in
\* one of the ways an agent may word it; or the same without the risk line,
\* inside <r> tags.
FieldLine(marker, label) ==
    IF label = "" THEN <<>> ELSE << <<marker, label>> >>

Notes ==
    {<<>>,
     << <<WarnSign, "P/E is N/A">> >>,
     << <<"MISSING DATA", "ROE">> >>,
     << <<"missing data", "for", "Debt/Equity">> >>,
     << <<"some", "metrics", "are", "N/A">> >>}

Wrap(wrapped, text) ==
    IF wrapped THEN << <<"<r>">> >> \o text \o << <<"</r>">> >> ELSE text

Report(d, c, r, note, wrapped) ==
    Wrap(wrapped,
         FieldLine("FINAL DECISION:", d) \o FieldLine("CONFIDENCE:", c)
         \o FieldLine("RISK LEVEL:", r) \o note)

Reports ==
    {Report(d, c, r, note, FALSE) :
        d \in {"", "BUY", "SELL", "WATCH", "AVOID"},
        c \in {"", "HIGH", "MEDIUM", "LOW"},
        r \in {"", "HIGH", "MEDIUM", "LOW"},
        note \in Notes}
    \cup
    {Report(d, c, "", note, TRUE) :
        d \in {"", "BUY", "SELL", "WATCH", "AVOID"},
        c \in {"", "HIGH", "MEDIUM", "LOW"},
        note \in Notes}

----------------------------------------------------------------------------
(* The run *)

NoScoreIn == [pe_ratio |-> None, roe |-> None, debt_equity |-> None,
              sector |-> ""]

NoScore == [sector |-> "", score |-> 0, max_possible |-> 0,
            normalized_score |-> 0, details |-> <<>>, warnings |-> <<>>,
            marker |-> FALSE]

\* analyze_stock called with a ticker, nothing read from a caller
NoEntry == [raw |-> <<>>, ticker |-> <<>>, response |-> ""]

IdleRun ==
    /\ entry = NoEntry
    /\ priceOut = NoPrice
    /\ fundOut = NoFund
    /\ scoreOut = NoScore
    /\ quant = ""
    /\ research = ""
    /\ applied = NoRow
    /\ finalText = <<>>
    /\ parsed = Unparsed
    /\ record = Unparsed
    /\ log = <<>>
    /\ csv = [exists |-> FALSE, rows |-> <<>>]

\* analyze_multiple_stocks is not called
NoBatch ==
    /\ tickers = <<>>
    /\ parallel = FALSE
    /\ max_workers = 0
    /\ runs = <<>>
    /\ future_to_ticker = <<>>
    /\ results = <<>>
    /\ completed = 0
    /\ next = 1
    /\ bpc = "none"

Idle == IdleRun /\ NoBatch

\* a run of analyze_stock (cli) or of api.analyze (api) on one ticker
Init ==
    /\ benchmarks = Loaded
    /\ pc = "price"
    /\ mode \in {"cli", "api"}
    /\ hist \in RunHists
    /\ info \in RunInfos
    /\ scoreIn = NoScoreIn
    /\ Idle

\* step 1 of the quantitative task
RunGetStockPrice ==
    /\ pc = "price"
    /\ priceOut' = GetStockPrice(hist)
    /\ pc' = "fundamentals"
    /\ UNCHANGED <<entry, batch, benchmarks, files, mode, hist, info, fundOut, scoreIn, scoreOut, quant,
                   research, applied, finalText, parsed, record>>

\* step 2 of the quantitative task
RunGetFundamentals ==
    /\ pc = "fundamentals"
    /\ fundOut' = GetFundamentals(info)
    /\ pc' = "extract"
    /\ UNCHANGED <<entry, batch, benchmarks, files, mode, hist, info, priceOut, scoreIn, scoreOut, quant,
                   research, applied, finalText, parsed, record>>

\* steps 3 and 4 as the task words them: the values as returned, -1 for
\* every N/A, the sector string exactly as returned
Extracted(f) ==
    [pe_ratio    |-> IF f.pe.some THEN f.pe ELSE Num(-1),
     roe         |-> IF f.roe.some THEN f.roe ELSE Num(-1 * ROE_SCALE),
     debt_equity |-> IF f.debt_equity.some THEN f.debt_equity ELSE Num(-1),
     sector      |-> IF f.status = "ok" THEN f.sector ELSE "Unknown"]

ExtractMetrics ==
    /\ pc = "extract"
    /\ scoreIn' = Extracted(fundOut)
    /\ pc' = "score"
    /\ UNCHANGED <<entry, batch, benchmarks, files, mode, hist, info, priceOut, fundOut, scoreOut, quant,
                   research, applied, finalText, parsed, record>>

RunCalculateValueScore ==
    /\ pc = "score"
    /\ scoreOut' = CalculateValueScore(scoreIn.pe_ratio, scoreIn.roe,
                                       scoreIn.debt_equity, scoreIn.sector)
    /\ pc' = "rules"
    /\ UNCHANGED <<entry, batch, benchmarks, files, mode, hist, info, priceOut, fundOut, scoreIn, quant,
                   research, applied, finalText, parsed, record>>

\* step 6 of the quantitative task, on the normalized score and the RSI as
\* printed by the tools
ApplyQuantRules ==
    /\ pc = "rules"
    /\ quant' \in QuantVerdicts(scoreOut.normalized_score, priceOut.rsi_text,
                                 scoreIn.pe_ratio)
    /\ pc' = "research"
    /\ UNCHANGED <<entry, batch, benchmarks, files, mode, hist, info, priceOut, fundOut, scoreIn, scoreOut,
                   research, applied, finalText, parsed, record>>

\* the research task ends with one of the three sentiments
Research ==
    /\ pc = "research"
    /\ research' \in Sentiments
    /\ pc' = "decision"
    /\ UNCHANGED <<entry, batch, benchmarks, files, mode, hist, info, priceOut, fundOut, scoreIn, scoreOut,
                   quant, applied, finalText, parsed, record>>

\* the decision task: the row of the matrix for (quant, research), and the
\* text the agent returns, which is not bound to the row
Decide ==
    /\ pc = "decision"
    /\ applied' \in MatrixRows(quant, research)
    /\ finalText' \in Reports
    /\ pc' = "save"
    /\ UNCHANGED <<entry, batch, benchmarks, files, mode, hist, info, priceOut, fundOut, scoreIn, scoreOut,
                   quant, research, parsed, record>>

\* analyze_stock after crew.kickoff(): save_result appends the report to
\* the log, parses and downgrades, appends the header (when the file was not
\* there) and the row to the summary
SaveResult ==
    /\ pc = "save"
    /\ mode = "cli"
    /\ log' = Append(log, LogEntry("ticker", finalText))
    /\ parsed' = SaveResultRecord(finalText).parsed
    /\ record' = SaveResultRecord(finalText).record
    /\ csv' = [exists |-> TRUE,
               rows |-> (IF csv.exists THEN csv.rows
                         ELSE Append(csv.rows, CsvHeader))
                        \o <<CsvRow(SaveResultRecord(finalText).record)>>]
    /\ pc' = "done"
    /\ UNCHANGED <<entry, batch, benchmarks, mode, hist, info, priceOut, fundOut, scoreIn,
                   scoreOut, quant, research, applied, finalText>>

ApiAnalyze ==
    /\ pc = "save"
    /\ mode = "api"
    /\ parsed' = ApiAnalyzeRecord(finalText).parsed
    /\ record' = ApiAnalyzeRecord(finalText).record
    /\ pc' = "done"
    /\ UNCHANGED <<entry, batch, benchmarks, files, mode, hist, info, priceOut, fundOut, scoreIn, scoreOut,
                   quant, research, applied, finalText>>

Next ==
    \/ RunGetStockPrice
    \/ RunGetFundamentals
    \/ ExtractMetrics
    \/ RunCalculateValueScore
    \/ ApplyQuantRules
    \/ Research
    \/ Decide
    \/ SaveResult
    \/ ApiAnalyze

Spec == Init /\ [][Next]_vars

\* the value scorer alone, on every input of ScoreInputs
InitScore ==
    /\ benchmarks = Loaded
    /\ pc = "score"
    /\ mode = "cli"
    /\ hist = Hist(FALSE, 0, 0, 0)
    /\ info = Info(FALSE, TRUE, NoAV, "Unknown", None, None, None)
    /\ scoreIn \in ScoreInputs
    /\ Idle

SpecScore == InitScore /\ [][RunCalculateValueScore]_vars

\* the price tool alone, on every history of Hists
InitPrice ==
    /\ benchmarks = Loaded
    /\ pc = "price"
    /\ mode = "cli"
    /\ hist \in Hists
    /\ info = Info(FALSE, TRUE, NoAV, "Unknown", None, None, None)
    /\ scoreIn = NoScoreIn
    /\ Idle

SpecPrice == InitPrice /\ [][RunGetStockPrice]_vars

\* str.upper() of the characters a ticker is typed with
UpperChar(c) ==
    CASE c = "t" -> "T"
      [] c = "c" -> "C"
      [] c = "s" -> "S"
      [] c = "n" -> "N"
      [] OTHER   -> c

\* ticker.endswith(suffix)
EndsWith(ticker, suffix) ==
    /\ Len(ticker) >= Len(suffix)
    /\ SubSeq(ticker, Len(ticker) - Len(suffix) + 1, Len(ticker)) = suffix

\* if not ticker.endswith(('.NS', '.BO')): ticker += '.NS'
WithExchange(ticker) ==
    IF EndsWith(ticker, <<".", "N", "S">>) \/ EndsWith(ticker, <<".", "B", "O">>)
    THEN ticker
    ELSE ticker \o <<".", "N", "S">>

\* .strip().upper() of what was typed or posted
Cleaned(raw) == [k \in DOMAIN StripLine(raw) |-> UpperChar(StripLine(raw)[k])]

\* what a caller may type or post as the ticker, character by character
RawTickers ==
    {<<>>, <<Space>>, <<Space, Space>>,
     <<"t", "c", "s">>, <<Space, "T", "C", "S", Space>>,
     <<"T", "C", "S", ".", "N", "S">>, <<"t", "c", "s", ".", "B", "O">>,
     <<".", "n", "s">>}

\* api.analyze up to the 400: an empty ticker is answered at once
EnterApi ==
    /\ pc = "entry"
    /\ mode = "api"
    /\ LET ticker == Cleaned(entry.raw) IN
       IF ticker = <<>>
       THEN /\ entry' = [entry EXCEPT !.response = "400 Ticker required"]
            /\ pc' = "rejected"
       ELSE /\ entry' = [entry EXCEPT !.ticker = WithExchange(ticker)]
            /\ pc' = "price"
    /\ UNCHANGED <<batch, benchmarks, files, mode, hist, info, priceOut,
                   fundOut, scoreIn, scoreOut, quant, research, applied,
                   finalText, parsed, record>>

\* __main__, choice 1, up to the call of analyze_stock(ticker)
EnterMain ==
    /\ pc = "entry"
    /\ mode = "cli"
    /\ entry' = [entry EXCEPT !.ticker = WithExchange(Cleaned(entry.raw))]
    /\ pc' = "price"
    /\ UNCHANGED <<batch, benchmarks, files, mode, hist, info, priceOut,
                   fundOut, scoreIn, scoreOut, quant, research, applied,
                   finalText, parsed, record>>

\* a caller types or posts a ticker; the providers answer as for a ticker
\* without price history and without fundamentals
InitEntry ==
    /\ benchmarks = Loaded
    /\ pc = "entry"
    /\ mode \in {"cli", "api"}
    /\ hist = Hist(FALSE, 0, 0, 0)
    /\ info = Info(FALSE, TRUE, NoAV, "Unknown", None, None, None)
    /\ scoreIn = NoScoreIn
    /\ entry \in [raw : RawTickers, ticker : {<<>>}, response : {""}]
    /\ priceOut = NoPrice
    /\ fundOut = NoFund
    /\ scoreOut = NoScore
    /\ quant = ""
    /\ research = ""
    /\ applied = NoRow
    /\ finalText = <<>>
    /\ parsed = Unparsed
    /\ record = Unparsed
    /\ log = <<>>
    /\ csv = [exists |-> FALSE, rows |-> <<>>]
    /\ NoBatch

NextEntry ==
    \/ EnterApi
    \/ EnterMain
    \/ RunGetStockPrice
    \/ RunGetFundamentals
    \/ ExtractMetrics
    \/ RunCalculateValueScore
    \/ ApplyQuantRules
    \/ Research
    \/ Decide
    \/ SaveResult
    \/ ApiAnalyze

SpecEntry == InitEntry /\ [][NextEntry]_vars

\* The lines a final text is put together from: a field line in upper and
\* in mixed case, with blanks around it, with two labels in either order,
\* with a label inside a longer word, with a marker and no label, with two
\* markers, with a tag inside the marker and around the line; lines about
\* missing data; a label without marker; a blank line and an empty one.
ParseLineSet ==
    {<<"FINAL DECISION:", "BUY">>,
     <<"Final Decision:", "WATCH", "or", "SELL">>,
     <<"FINAL DECISION:", "pending">>,
     <<"FINAL DECISION:", "BUYBACK">>,
     <<"FINAL <r>DECISION:", "AVOID">>,
     <<"<r>", "FINAL DECISION:", "SELL", "</r>">>,
     <<"CONFIDENCE:", "HIGH">>,
     <<"CONFIDENCE:", "LOW", "to", "MEDIUM">>,
     <<Space, "Confidence:", "HIGHLIGHTS", Space>>,
     <<"RISK LEVEL:", "BELOW">>,
     <<"RISK LEVEL:", "MEDIUM", "CONFIDENCE:", "HIGH">>,
     <<"missing data", "for", "ROE">>,
     <<WarnSign>>,
     <<"BUY">>,
     <<Space>>,
     <<>>}

MaxLines == 3

ParseTexts == UNION {[1..n -> ParseLineSet] : n \in 0..MaxLines}

\* save_result and api.analyze alone, on every text of ParseTexts
InitParse ==
    /\ benchmarks = Loaded
    /\ pc = "save"
    /\ mode \in {"cli", "api"}
    /\ hist = Hist(FALSE, 0, 0, 0)
    /\ info = Info(FALSE, TRUE, NoAV, "Unknown", None, None, None)
    /\ scoreIn = NoScoreIn
    /\ entry = NoEntry
    /\ priceOut = NoPrice
    /\ fundOut = NoFund
    /\ scoreOut = NoScore
    /\ quant = ""
    /\ research = ""
    /\ applied = NoRow
    /\ finalText \in ParseTexts
    /\ parsed = Unparsed
    /\ record = Unparsed
    /\ log = <<>>
    /\ csv = [exists |-> FALSE, rows |-> <<>>]
    /\ NoBatch

SpecParse == InitParse /\ [][SaveResult \/ ApiAnalyze]_vars

----------------------------------------------------------------------------
(* Claims about the value scorer, under SpecScore *)

Metrics == {"P/E", "ROE", "Debt/Equity"}

\* a metric as the caller means it: a number other than the sentinel -1
Given(x, unit) == x.some /\ x.val # -1 * unit

PresentMetrics(in) ==
    {m \in Metrics : \/ m = "P/E" /\ Given(in.pe_ratio, 1)
                     \/ m = "ROE" /\ Given(in.roe, ROE_SCALE)
                     \/ m = "Debt/Equity" /\ Given(in.debt_equity, 1)}

MissingMetrics(in) == Metrics \ PresentMetrics(in)

WeightOf(m) == CASE m = "P/E" -> 35 [] m = "ROE" -> 35 [] m = "Debt/Equity" -> 30

RECURSIVE WeightSum(_)
WeightSum(S) ==
    IF S = {} THEN 0
    ELSE LET m == CHOOSE x \in S : TRUE IN WeightOf(m) + WeightSum(S \ {m})

WarningOf(m) ==
    CASE m = "P/E"         -> "P/E is N/A - P/E score skipped (0/35)"
      [] m = "ROE"         -> "ROE is N/A - ROE score skipped (0/35)"
      [] m = "Debt/Equity" -> "Debt/Equity is N/A - D/E score skipped (0/30)"

Count(seq, x) == Cardinality({i \in DOMAIN seq : seq[i] = x})

Scored == pc = "rules"

\* C1 as stated: whenever a metric is present the normalized score is
\* 100 * raw_score / max_possible rounded to the nearest integer.
C1_NormalizedIsRounded ==
    (Scored /\ scoreOut.max_possible > 0) =>
        LET n == scoreOut.normalized_score
            m == scoreOut.max_possible
            x == 100 * scoreOut.score
        IN 2 * (x - n * m) <= m /\ 2 * (n * m - x) <= m

\* C1 as amended: whenever a metric is present (max_possible > 0) the
\* normalized score is 100 * raw_score / max_possible truncated to an integer
\* (the floor, not the nearest integer); when all three metrics are missing
\* max_possible is 0 and the normalized score is 0.
C1_NormalizedIsTruncated ==
    Scored =>
        LET n == scoreOut.normalized_score
            m == scoreOut.max_possible
            x == 100 * scoreOut.score
        IN /\ (m > 0) <=> (PresentMetrics(scoreIn) # {})
           /\ m > 0 => (n * m <= x /\ x < (n + 1) * m)
           /\ m = 0 => n = 0

\* 60 of 70 points: 85.71 is reported as 85
C1_TruncationReached ==
    /\ Scored
    /\ scoreOut.score = 60
    /\ scoreOut.max_possible = 70
    /\ scoreOut.normalized_score = 85

\* C2: max_possible is the sum of the weights of exactly the metrics that
\* are present, a missing metric (-1 or None) adds nothing to raw_score, and
\* there is exactly one warning per missing metric and none for a present one.
C2_MissingExcludedAndWarned ==
    Scored =>
        LET in == scoreIn
            present == PresentMetrics(in)
            Pts(m) == IF m \notin present THEN 0
                      ELSE CASE m = "P/E" -> ScorePE(in.pe_ratio).pts
                             [] m = "ROE" -> ScoreROE(in.roe).pts
                             [] m = "Debt/Equity" ->
                                    ScoreDE(in.debt_equity, in.sector).pts
        IN /\ scoreOut.max_possible = WeightSum(present)
           /\ scoreOut.score = Pts("P/E") + Pts("ROE") + Pts("Debt/Equity")
           /\ scoreOut.score <= scoreOut.max_possible
           /\ \A m \in Metrics :
                 Count(scoreOut.warnings, WarningOf(m)) =
                     IF m \in present THEN 0 ELSE 1
           /\ Len(scoreOut.warnings) = Cardinality(Metrics \ present)

\* P/E passed as -1, ROE as None, Debt/Equity scored: 30 points possible
C2_TwoMissingReached ==
    /\ Scored
    /\ scoreIn.pe_ratio = Num(-1)
    /\ scoreIn.roe = None
    /\ Given(scoreIn.debt_equity, 1)
    /\ scoreOut.max_possible = 30
    /\ Len(scoreOut.warnings) = 2

\* the score that gives the metrics of T no points and counts their weight
ZeroFilled(T) ==
    Normalize(scoreOut.score, WeightSum(PresentMetrics(scoreIn)) + WeightSum(T))

\* C3 as stated: with a metric missing, the normalized score never equals
\* the score that gives the missing metric 0 points and still counts its
\* weight.
C3_NeverEqualsZeroFilled ==
    Scored =>
        \A T \in SUBSET MissingMetrics(scoreIn) :
            T # {} => scoreOut.normalized_score # ZeroFilled(T)

\* C3 as amended: with a metric missing and raw_score > 0, the normalized
\* score is strictly greater than the score that gives the missing metric 0
\* points and still counts its weight; with raw_score = 0 both are 0.
C3_AboveZeroFilled ==
    Scored =>
        \A T \in SUBSET MissingMetrics(scoreIn) :
            T # {} =>
                /\ scoreOut.score > 0 =>
                        scoreOut.normalized_score > ZeroFilled(T)
                /\ scoreOut.score = 0 =>
                        (scoreOut.normalized_score = 0 /\ ZeroFilled(T) = 0)

\* Scenario A: P/E 12, ROE 0.22, no Debt/Equity: 70 of 70 is 100, not 70
C3_RenormalizedReached ==
    /\ Scored
    /\ scoreIn.pe_ratio = Num(14)
    /\ scoreIn.roe = Num(21)
    /\ MissingMetrics(scoreIn) = {"Debt/Equity"}
    /\ scoreIn.sector = "Technology"
    /\ scoreOut.score = 70
    /\ scoreOut.max_possible = 70
    /\ scoreOut.normalized_score = 100
    /\ ZeroFilled({"Debt/Equity"}) = 70

----------------------------------------------------------------------------
(* Claims about the decision matrix and the downgrade, under Spec *)

\* the table of the design, Quant x Qual -> <<Decision, BaseConfidence>>
DesignCell(q, s) ==
    CASE q = "BUY"   /\ s = "BULLISH" -> <<"BUY", "HIGH">>
      [] q = "BUY"   /\ s = "NEUTRAL" -> <<"BUY", "MEDIUM">>
      [] q = "BUY"   /\ s = "BEARISH" -> <<"WATCH", "MEDIUM">>
      [] q = "WATCH" /\ s = "BULLISH" -> <<"BUY", "MEDIUM">>
      [] q = "WATCH" /\ s = "NEUTRAL" -> <<"WATCH", "MEDIUM">>
      [] q = "WATCH" /\ s = "BEARISH" -> <<"WATCH", "LOW">>
      [] q = "AVOID" /\ s = "BULLISH" -> <<"WATCH", "LOW">>
      [] q = "AVOID" /\ s = "NEUTRAL" -> <<"AVOID", "MEDIUM">>
      [] q = "AVOID" /\ s = "BEARISH" -> <<"AVOID", "HIGH">>

Decided == pc \in {"save", "done"}

\* C4: the matrix of the decision task is total and single-valued over
\* {BUY,WATCH,AVOID} x {BULLISH,NEUTRAL,BEARISH}: each of the 9 pairs has
\* exactly one row, the cell of the design's table, and the row a decision
\* task applies to its (quant, research) is that cell.
C4_MatrixTotalSingleValued ==
    /\ \A q \in Verdicts, s \in Sentiments :
          MatrixRows(q, s) =
              {Row(q, s, DesignCell(q, s)[1], DesignCell(q, s)[2])}
    /\ Cardinality(DECISION_MATRIX) = 9
    /\ Decided =>
          /\ applied.quant = quant /\ applied.research = research
          /\ <<applied.decision, applied.confidence>> =
                 DesignCell(quant, research)

\* AVOID + BULLISH was applied as WATCH / LOW
C4_AvoidBullishApplied ==
    /\ Decided
    /\ quant = "AVOID"
    /\ research = "BULLISH"
    /\ applied = Row("AVOID", "BULLISH", "WATCH", "LOW")

\* the text the parser of the entry point scans
Scanned == IF mode = "api" THEN StripTags(finalText) ELSE finalText

Detected == MissingDataDetected(Scanned)

Levels == {"HIGH", "MEDIUM", "LOW"}

Rank(c) == CASE c = "HIGH" -> 3 [] c = "MEDIUM" -> 2 [] c = "LOW" -> 1

\* one step down the scale HIGH -> MEDIUM -> LOW, never below LOW
OneStepDown(c) ==
    IF c \notin Levels THEN c
    ELSE CHOOSE d \in Levels :
            Rank(d) = (IF Rank(c) > 1 THEN Rank(c) - 1 ELSE 1)

Saved == pc = "done"

\* C5: when missing data is detected, save_result and api.analyze lower the
\* parsed confidence by exactly one step on HIGH -> MEDIUM -> LOW with a
\* floor at LOW, and leave the decision as parsed; WATCH + BEARISH with
\* missing data ends as WATCH / LOW.
C5_DowngradeOneStepFloorLow ==
    (Saved /\ Detected /\ parsed.confidence \in Levels) =>
        /\ record.confidence = OneStepDown(parsed.confidence)
        /\ record.confidence \in Levels
        /\ record.decision = parsed.decision

\* Scenario D: the row WATCH / LOW, reported as such with a missing-data
\* marker, is saved as WATCH / LOW
C5_ScenarioDReached ==
    /\ Saved
    /\ quant = "WATCH" /\ research = "BEARISH"
    /\ applied.decision = "WATCH" /\ applied.confidence = "LOW"
    /\ parsed.decision = "WATCH" /\ parsed.confidence = "LOW"
    /\ Detected
    /\ record.decision = "WATCH" /\ record.confidence = "LOW"

\* C6: the downgrade is idempotent: the step applied to the confidence it
\* has produced gives that confidence again.
C6_DowngradeIdempotent ==
    (Saved /\ Detected) =>
        ConfidenceDowngrade(record.confidence) = record.confidence

\* a tool of the quantitative task wrote the missing-data marker
UpstreamMissing == priceOut.marker \/ fundOut.marker \/ scoreOut.marker

\* C7: the final confidence is the base confidence one step down exactly
\* when a stage upstream emitted a missing-data marker, and the base
\* confidence otherwise, whatever the text of the decision task.
C7_DowngradeIffUpstreamMissing ==
    Saved =>
        record.confidence = IF UpstreamMissing
                            THEN OneStepDown(parsed.confidence)
                            ELSE parsed.confidence

\* the design's rule of the quantitative stage, first match wins
FirstMatch(score, rsi) ==
    IF score > 60 /\ Less(rsi, 45) THEN "BUY"
    ELSE IF score < 40 \/ Greater(rsi, 70) THEN "AVOID"
    ELSE "WATCH"

\* C8: the quantitative stage yields the one verdict of the first matching
\* rule (BUY, else AVOID, else WATCH), and the rules given to the agent
\* select that same single verdict.
C8_QuantFirstMatch ==
    (pc \in {"research", "decision", "save", "done"}
        /\ priceOut.status = "ok" /\ ~priceOut.rsi_text.nan) =>
            /\ quant = FirstMatch(scoreOut.normalized_score, priceOut.rsi_text)
            /\ QuantVerdicts(scoreOut.normalized_score, priceOut.rsi_text,
                             scoreIn.pe_ratio)
                  = {FirstMatch(scoreOut.normalized_score, priceOut.rsi_text)}

----------------------------------------------------------------------------
(* Claims about the price tool *)

Priced == pc # "price"

Exactly(x, t) == ~x.nan /\ x.num = t * x.den

\* C9 as stated: an RSI of exactly 45 is in the slightly-oversold band and
\* an RSI of exactly 70 in the slightly-overbought band.
C9_BoundaryInLowerBand ==
    (Priced /\ priceOut.status = "ok") =>
        /\ Exactly(priceOut.rsi, 45) => priceOut.rsi_signal = "Slightly oversold"
        /\ Exactly(priceOut.rsi, 70) => priceOut.rsi_signal = "Slightly overbought"

\* C9 as amended: the bands are half-open on the upper bound, so an RSI of
\* exactly 45 is in the NEUTRAL band and an RSI of exactly 70 in the
\* OVERBOUGHT band (30 and 55 likewise open the band above them).
C9_BoundaryInUpperBand ==
    (Priced /\ priceOut.status = "ok") =>
        /\ Exactly(priceOut.rsi, 30) => priceOut.rsi_signal = "Slightly oversold"
        /\ Exactly(priceOut.rsi, 45) => priceOut.rsi_signal = "NEUTRAL"
        /\ Exactly(priceOut.rsi, 55) => priceOut.rsi_signal = "Slightly overbought"
        /\ Exactly(priceOut.rsi, 70) => priceOut.rsi_signal = "OVERBOUGHT"

\* gains 9, losses 11 over the window: RSI 45, reported NEUTRAL
C9_FortyFiveReached ==
    /\ Priced
    /\ hist.gain = 9 /\ hist.loss = 11
    /\ Exactly(priceOut.rsi, 45)
    /\ priceOut.rsi_text = Frac(4500, 100)
    /\ priceOut.rsi_signal = "NEUTRAL"

\* C10: with fewer than 15 closing prices the price tool reports an error
\* in the place of an RSI value and band, RSI counts as missing, and the run
\* ends with a decision whose confidence is downgraded.
C10_InsufficientHistoryReported ==
    (~hist.raises /\ hist.n < 15) =>
        /\ Priced => (priceOut.status # "ok" /\ priceOut.rsi_signal = "")
        /\ Saved => record.confidence = OneStepDown(parsed.confidence)

----------------------------------------------------------------------------
(* Claims about the tiers of the value scorer, under SpecScore *)

\* the input with metric m passed as the sentinel
Without(in, m) ==
    CASE m = "P/E"         -> [in EXCEPT !.pe_ratio = Num(-1)]
      [] m = "ROE"         -> [in EXCEPT !.roe = Num(-1 * ROE_SCALE)]
      [] m = "Debt/Equity" -> [in EXCEPT !.debt_equity = Num(-1)]

ScoreOf(in) ==
    CalculateValueScore(in.pe_ratio, in.roe, in.debt_equity, in.sector)

\* what metric m adds to the reported raw score and to max_possible: the
\* reported figures less those of the same call without m
PointsFor(m) == scoreOut.score - ScoreOf(Without(scoreIn, m)).score

WeightFor(m) ==
    scoreOut.max_possible - ScoreOf(Without(scoreIn, m)).max_possible

Noted(text) == \E i \in DOMAIN scoreOut.details : scoreOut.details[i].text = text

\* C13: a present P/E earns 35 points below 15, 25 from 15 to below 20, 10
\* from 20 to below 30 and 0, with the overvaluation-risk note, from 30 on;
\* in each case 35 is added to max_possible.
C13_PETiers ==
    (Scored /\ Given(scoreIn.pe_ratio, 1)) =>
        LET v == scoreIn.pe_ratio.val IN
        /\ PointsFor("P/E") = (IF v < 15 THEN 35
                               ELSE IF v < 20 THEN 25
                               ELSE IF v < 30 THEN 10 ELSE 0)
        /\ WeightFor("P/E") = 35
        /\ Noted("High P/E - overvaluation risk") <=> (v >= 30)

\* P/E exactly 15 with the other metrics at their best: 25 + 35 + 30
C13_FifteenReached ==
    /\ Scored
    /\ scoreIn.pe_ratio = Num(15)
    /\ PointsFor("P/E") = 25
    /\ scoreOut.score = 90
    /\ scoreOut.max_possible = 100

\* C14: a present ROE earns 35 points above 0.20, 25 above 0.15 up to 0.20,
\* 10 above 0.10 up to 0.15 and 0 up to 0.10; in each case 35 is added to
\* max_possible.
C14_ROETiers ==
    (Scored /\ Given(scoreIn.roe, ROE_SCALE)) =>
        LET v == scoreIn.roe.val IN
        /\ PointsFor("ROE") = (IF v > 20 THEN 35
                               ELSE IF v > 15 THEN 25
                               ELSE IF v > 10 THEN 10 ELSE 0)
        /\ WeightFor("ROE") = 35

\* ROE exactly 0.20 earns 25 points, not 35
C14_TwentyReached ==
    /\ Scored
    /\ scoreIn.roe = Num(20)
    /\ PointsFor("ROE") = 25
    /\ WeightFor("ROE") = 35
    /\ Noted("Good ROE")

\* C15: a present Debt/Equity earns 30 points below 0.3 * normal_max, 20
\* below normal_max, 10 below risky_above and 0 otherwise, by the benchmark
\* of the sector, and the explanation of the 0 tier names the risky_above
\* threshold that was applied.
C15_DETiers ==
    (Scored /\ Given(scoreIn.debt_equity, 1)) =>
        LET v == scoreIn.debt_equity.val
            b == BenchmarkGet(scoreIn.sector)
            tier == IF 10 * v < 3 * b.normal_max THEN 30
                    ELSE IF v < b.normal_max THEN 20
                    ELSE IF v < b.risky_above THEN 10 ELSE 0
            text == CASE tier = 30 -> "Low debt - very safe"
                      [] tier = 20 -> "Normal debt - acceptable"
                      [] tier = 10 -> "Elevated debt - monitor"
                      [] tier = 0  -> "High debt - risky"
        IN /\ PointsFor("Debt/Equity") = tier
           /\ WeightFor("Debt/Equity") = 30
           /\ \E i \in DOMAIN scoreOut.details :
                 scoreOut.details[i] =
                     DebtDetail(text, scoreIn.sector,
                                IF tier = 0 THEN {b.risky_above} ELSE {})

\* Debt/Equity 300 for Industrials: no points, threshold 300 named
C15_RiskyReached ==
    /\ Scored
    /\ scoreIn.sector = "Industrials"
    /\ scoreIn.debt_equity = Num(300)
    /\ PointsFor("Debt/Equity") = 0
    /\ \E i \in DOMAIN scoreOut.details :
          scoreOut.details[i] = DebtDetail("High debt - risky", "Industrials", {300})

\* C17: 0 <= raw_score <= max_possible <= 100 and the normalized score is an
\* integer from 0 to 100.
C17_ScoreBounds ==
    Scored =>
        /\ 0 <= scoreOut.score
        /\ scoreOut.score <= scoreOut.max_possible
        /\ scoreOut.max_possible <= 100
        /\ scoreOut.normalized_score \in 0..100

\* everything at its best: 100 of 100
C17_FullScoreReached ==
    /\ Scored
    /\ scoreOut.score = 100
    /\ scoreOut.max_possible = 100
    /\ scoreOut.normalized_score = 100

\* the present P/E values of the scorer's inputs
PresentPE == {p \in PEValues : Given(p, 1)}

\* C18: for fixed ROE, Debt/Equity and sector and two present P/E values
\* a < b, the points attributed to P/E for a are at least those for b.
C18_PEMonotone ==
    (Scored /\ Given(scoreIn.pe_ratio, 1)) =>
        \A b \in PresentPE :
            scoreIn.pe_ratio.val < b.val =>
                LET other == ScoreOf([scoreIn EXCEPT !.pe_ratio = b])
                    base  == ScoreOf(Without(scoreIn, "P/E"))
                IN PointsFor("P/E") >= other.score - base.score

\* a negative P/E is scored: 35 points, as many as any higher P/E earns
C18_NegativeReached ==
    /\ Scored
    /\ scoreIn.pe_ratio = Num(-5)
    /\ PointsFor("P/E") = 35
    /\ \E b \in PresentPE : b.val > 30

----------------------------------------------------------------------------
(* More claims about the price tool, under SpecPrice *)

\* C11: whenever the average loss over the trailing 14 periods is 0,
\* whatever the average gain (a flat window included), the reported RSI is
\* 100, and no undefined value reaches the band classification.
C11_ZeroLossIsHundred ==
    (Priced /\ ~hist.raises /\ hist.n >= RSI_WINDOW + 1 /\ hist.loss = 0) =>
        /\ priceOut.status = "ok"
        /\ Exactly(priceOut.rsi, 100)
        /\ priceOut.rsi_text = Frac(10000, 100)

----------------------------------------------------------------------------
(* Claims about the risk level, under Spec *)

\* the scorer's Debt/Equity detail is the risky one
DebtFlagged ==
    \E i \in DOMAIN scoreOut.details :
        scoreOut.details[i].text = "High debt - risky"

\* a metric was missing for the scorer
MetricMissing == scoreOut.warnings # <<>>

\* the risk level of the design
DesignRisk ==
    IF DebtFlagged THEN "HIGH" ELSE IF MetricMissing THEN "MEDIUM" ELSE "LOW"

\* C12: the risk level recorded for the run is HIGH iff the scorer flagged
\* the debt as risky, otherwise MEDIUM iff a metric was missing, otherwise
\* LOW; stated for the runs whose decision text gives a risk level that the
\* risk rules of the decision task admit.
C12_RiskByPrecedence ==
    (Saved /\ parsed.risk \in RiskRule(DebtFlagged, MetricMissing)) =>
        record.risk = DesignRisk

----------------------------------------------------------------------------
(* Claims about the benchmark lookup, under SpecScore *)

\* the benchmark of the design: the row of the sector name as written, the
\* default pair for every other string
DesignBenchmark(sector) ==
    IF sector \in SectorKeys THEN SECTOR_DEBT_BENCHMARKS[sector]
    ELSE Bench(80, 150)

\* C16: the lookup matches the sector string exactly and case-sensitively
\* against the 12-entry table and uses the default (80, 150) for every other
\* string, 'Unknown' and differently-cased names included; no scoring call
\* changes the table or the default.
C16_ExactLookupNoMutation ==
    /\ benchmarks = Loaded
    /\ Cardinality(DOMAIN benchmarks.table) = 12
    /\ benchmarks.default = Bench(80, 150)
    /\ (Scored /\ Given(scoreIn.debt_equity, 1)) =>
          LET v == scoreIn.debt_equity.val
              b == DesignBenchmark(scoreIn.sector)
              tier == IF 10 * v < 3 * b.normal_max THEN 30
                      ELSE IF v < b.normal_max THEN 20
                      ELSE IF v < b.risky_above THEN 10 ELSE 0
          IN /\ PointsFor("Debt/Equity") = tier
             /\ \A i \in DOMAIN scoreOut.details :
                   scoreOut.details[i].threshold \subseteq {b.risky_above}

\* 'technology' in lower case is scored by the default pair: Debt/Equity
\* 150 is risky by threshold 150, where the Technology row has 100
C16_LowerCaseReached ==
    /\ Scored
    /\ scoreIn.sector = "technology"
    /\ scoreIn.debt_equity = Num(150)
    /\ PointsFor("Debt/Equity") = 0
    /\ \E i \in DOMAIN scoreOut.details :
          scoreOut.details[i] = DebtDetail("High debt - risky", "technology", {150})
    /\ benchmarks = Loaded

----------------------------------------------------------------------------
(* main.py: analyze_multiple_stocks *)

\* most tickers in a batch, most worker threads
MaxTickers == 3
MaxWorkers == 2

TickerNames == {"AAA.NS", "BBB.NS"}

\* the lists a batch is called with, duplicates included
TickerLists == UNION {[1..n -> TickerNames] : n \in 0..MaxTickers}

\* the texts crew.kickoff() returns in a batch
BatchReports ==
    {Report("BUY", "HIGH", "LOW", <<>>, FALSE),
     Report("WATCH", "MEDIUM", "MEDIUM", << <<WarnSign, "P/E is N/A">> >>, FALSE)}

\* an optional parsed_data
NoParsed == [some |-> FALSE, val |-> Unparsed]

\* the call of analyze_stock for one submission: where it is, its ticker
\* argument, whether kickoff raised, the result of kickoff, file_exists of
\* save_result, what it returns, and the position of its entry in results
NoRun == [pc |-> "none", ticker |-> "", raised |-> FALSE, result |-> <<>>,
          file_exists |-> FALSE, parsed_data |-> NoParsed, slot |-> 0]

Running(i) == runs[i].pc \in {"kickoff", "log", "exists", "write"}

Done(i) == runs[i].pc \in {"returned", "raised"}

\* CanStart once a sibling has raised: nothing new is started
CanStartUnlessRaised(i) ==
    /\ \A j \in DOMAIN runs : runs[j].pc # "raised"
    /\ \A j \in DOMAIN results : results[j].status # "failed"
    /\ IF parallel
       THEN /\ runs[i].pc = "pending"
            /\ \A j \in 1..(i - 1) : runs[j].pc # "pending"
            /\ Cardinality({j \in DOMAIN runs : Running(j)}) < max_workers
       ELSE bpc = "loop" /\ next = i /\ runs[i].pc = "none"

\* when analyze_stock is entered for submission i: in the loop, at its turn;
\* in the pool, the oldest submitted call when a worker thread is free
CanStart(i) ==
    IF parallel
    THEN /\ runs[i].pc = "pending"
         /\ \A j \in 1..(i - 1) : runs[j].pc # "pending"
         /\ Cardinality({j \in DOMAIN runs : Running(j)}) < max_workers
    ELSE bpc = "loop" /\ next = i /\ runs[i].pc = "none"

\* the ticker of a failed entry taken by position in the order of completion
FailedTickerByOrder(i) == tickers[Len(results) + 1]

\* the ticker of a failed entry: the loop variable, or future_to_ticker[future]
FailedTicker(i) == IF parallel THEN future_to_ticker[i] ELSE tickers[i]

\* the entry appended for submission i: what analyze_stock returned, or the
\* 'failed' entry of the except branch
EntryOf(i) ==
    IF runs[i].pc = "returned"
    THEN [ticker |-> runs[i].ticker, status |-> "completed",
          parsed_data |-> runs[i].parsed_data]
    ELSE [ticker |-> FailedTicker(i), status |-> "failed",
          parsed_data |-> NoParsed]

\* one list of each length, its tickers alternating
AlternatingLists ==
    {[i \in 1..n |-> IF i % 2 = 1 THEN "AAA.NS" ELSE "BBB.NS"] :
        n \in 0..MaxTickers}

\* analyze_multiple_stocks is called with one of the lists
BatchInit(lists) ==
    /\ benchmarks = Loaded
    /\ pc = "batch"
    /\ mode = "cli"
    /\ hist = Hist(FALSE, 0, 0, 0)
    /\ info = Info(FALSE, TRUE, NoAV, "Unknown", None, None, None)
    /\ scoreIn = NoScoreIn
    /\ IdleRun
    /\ tickers \in lists
    /\ parallel \in BOOLEAN
    /\ max_workers \in IF parallel THEN 1..MaxWorkers ELSE {MaxWorkers}
    /\ runs = [i \in 1..Len(tickers) |-> NoRun]
    /\ future_to_ticker = <<>>
    /\ results = <<>>
    /\ completed = 0
    /\ next = 1
    /\ bpc = IF ~parallel THEN "loop"
             ELSE IF Len(tickers) = 0 THEN "collect" ELSE "submit"

InitBatch == BatchInit(TickerLists)

\* executor.submit(analyze_stock, ticker): ticker, one per element of the list
Submit ==
    /\ bpc = "submit"
    /\ next <= Len(tickers)
    /\ runs' = [runs EXCEPT ![next] =
                    [@ EXCEPT !.pc = "pending", !.ticker = tickers[next]]]
    /\ future_to_ticker' = future_to_ticker @@ (next :> tickers[next])
    /\ next' = next + 1
    /\ bpc' = IF next = Len(tickers) THEN "collect" ELSE "submit"
    /\ UNCHANGED <<single, files, benchmarks, tickers, parallel, max_workers,
                   results, completed>>

\* analyze_stock(ticker) is entered
Start(i) ==
    /\ CanStart(i)
    /\ runs' = [runs EXCEPT ![i] =
                    [@ EXCEPT !.pc = "kickoff", !.ticker = tickers[i]]]
    /\ UNCHANGED <<single, files, benchmarks, tickers, parallel, max_workers,
                   future_to_ticker, results, completed, next, bpc>>

\* crew.kickoff() returns a text, or raises
Kickoff(i) ==
    /\ runs[i].pc = "kickoff"
    /\ \/ runs' = [runs EXCEPT ![i] =
                       [@ EXCEPT !.pc = "raised", !.raised = TRUE]]
       \/ \E text \in BatchReports :
             runs' = [runs EXCEPT ![i] =
                         [@ EXCEPT !.pc = "log", !.result = text]]
    /\ UNCHANGED <<single, files, benchmarks, tickers, parallel, max_workers,
                   future_to_ticker, results, completed, next, bpc>>

\* save_result: the report is appended to analysis_log.txt
WriteLog(i) ==
    /\ runs[i].pc = "log"
    /\ log' = Append(log, LogEntry(runs[i].ticker, runs[i].result))
    /\ runs' = [runs EXCEPT ![i] = [@ EXCEPT !.pc = "exists"]]
    /\ UNCHANGED <<single, csv, benchmarks, tickers, parallel, max_workers,
                   future_to_ticker, results, completed, next, bpc>>

\* save_result: the text is parsed, and file_exists = os.path.exists(...)
CheckExists(i) ==
    /\ runs[i].pc = "exists"
    /\ runs' = [runs EXCEPT ![i] =
                    [@ EXCEPT !.pc = "write", !.file_exists = csv.exists]]
    /\ UNCHANGED <<single, files, benchmarks, tickers, parallel, max_workers,
                   future_to_ticker, results, completed, next, bpc>>

\* save_result: the file is opened for append, the header is written when
\* file_exists was False, then the row; analyze_stock returns
WriteCsv(i) ==
    /\ runs[i].pc = "write"
    /\ LET r == SaveResultRecord(runs[i].result).record IN
       /\ csv' = [exists |-> TRUE,
                  rows |-> csv.rows
                           \o (IF runs[i].file_exists THEN <<>>
                               ELSE <<CsvHeader>>)
                           \o <<CsvRowOf(runs[i].ticker, r)>>]
       /\ runs' = [runs EXCEPT ![i] =
                       [@ EXCEPT !.pc = "returned",
                                 !.parsed_data = [some |-> TRUE, val |-> r]]]
    /\ UNCHANGED <<single, log, benchmarks, tickers, parallel, max_workers,
                   future_to_ticker, results, completed, next, bpc>>

\* the try / except around analyze_stock (loop) or future.result() (pool):
\* the entry of a finished call is appended to results
Collect(i) ==
    /\ Done(i)
    /\ IF parallel THEN bpc = "collect" ELSE bpc = "loop" /\ next = i
    /\ results' = Append(results, EntryOf(i))
    /\ runs' = [runs EXCEPT ![i] =
                    [@ EXCEPT !.pc = "collected", !.slot = Len(results) + 1]]
    /\ completed' = IF parallel THEN completed + 1 ELSE completed
    /\ next' = IF parallel THEN next ELSE next + 1
    /\ UNCHANGED <<single, files, benchmarks, tickers, parallel, max_workers,
                   future_to_ticker, bpc>>

\* return results
Return ==
    /\ bpc \in {"loop", "collect"}
    /\ \A i \in DOMAIN runs : runs[i].pc = "collected"
    /\ bpc' = "returned"
    /\ UNCHANGED <<single, files, benchmarks, tickers, parallel, max_workers,
                   runs, future_to_ticker, results, completed, next>>

NextBatch ==
    \/ Submit
    \/ \E i \in DOMAIN runs : Start(i)
    \/ \E i \in DOMAIN runs : Kickoff(i)
    \/ \E i \in DOMAIN runs : WriteLog(i)
    \/ \E i \in DOMAIN runs : CheckExists(i)
    \/ \E i \in DOMAIN runs : WriteCsv(i)
    \/ \E i \in DOMAIN runs : Collect(i)
    \/ Return

SpecBatch == InitBatch /\ [][NextBatch]_vars

\* the names of the tickers decide no step: one list of each length
InitBatchLive == BatchInit(AlternatingLists)

\* the threads of the pool and the main thread keep running
SpecBatchLive ==
    InitBatchLive /\ [][NextBatch]_vars /\ WF_vars(NextBatch)

----------------------------------------------------------------------------
(* Claims about analyze_multiple_stocks *)

Returned == bpc = "returned"

\* the entry appended for submission i
EntryFor(i) == results[runs[i].slot]

\* every submission was analysed and has its entry: 'failed' under its own
\* ticker when its analysis raised, 'completed' with its parsed data when not
EachHasItsEntry ==
    \A i \in DOMAIN tickers :
        /\ runs[i].pc = "collected"
        /\ runs[i].slot \in DOMAIN results
        /\ EntryFor(i).ticker = tickers[i]
        /\ IF runs[i].raised
           THEN EntryFor(i).status = "failed" /\ ~EntryFor(i).parsed_data.some
           ELSE EntryFor(i).status = "completed" /\ EntryFor(i).parsed_data.some

\* C19: in both modes an exception raised by one ticker's analyze_stock is
\* recorded as a 'failed' entry of that ticker and never aborts or prevents
\* the analysis of a sibling: the batch ends with every submission analysed
\* and holding its own entry.
C19_FailureIsolated == <>(Returned /\ EachHasItsEntry)

\* in the pool, the first submission raised, was collected first, and a later
\* one completed
C19_SiblingCompletedReached ==
    /\ Returned
    /\ parallel
    /\ \E i, j \in DOMAIN runs :
          /\ i < j
          /\ runs[i].raised /\ EntryFor(i).status = "failed"
          /\ runs[i].slot < runs[j].slot
          /\ ~runs[j].raised /\ EntryFor(j).status = "completed"

\* C20: on N submitted tickers, duplicates included, the list returned holds
\* exactly N entries, one per submission, each tagged with the ticker that
\* was analysed for it and with status 'completed' or 'failed'; in the loop
\* the entries are in submission order, in the pool in any order.
C20_OneEntryPerSubmission ==
    /\ Len(results) <= Len(tickers)
    /\ Returned =>
          /\ Len(results) = Len(tickers)
          /\ {runs[i].slot : i \in DOMAIN runs} = DOMAIN results
          /\ \A i \in DOMAIN runs :
                /\ EntryFor(i).ticker = tickers[i]
                /\ EntryFor(i).ticker = runs[i].ticker
                /\ EntryFor(i).status \in {"completed", "failed"}
                /\ ~parallel => runs[i].slot = i

\* three submissions with a duplicate, returned out of submission order, a
\* failed entry among them
C20_OutOfOrderReached ==
    /\ Returned
    /\ parallel
    /\ tickers = <<"AAA.NS", "BBB.NS", "AAA.NS">>
    /\ Len(results) = 3
    /\ runs[2].slot = 1
    /\ results[1] = [ticker |-> "BBB.NS", status |-> "failed",
                     parsed_data |-> NoParsed]
    /\ results[2].ticker = "AAA.NS" /\ results[3].ticker = "AAA.NS"

----------------------------------------------------------------------------
(* Claims about the state the runs of a batch share, under SpecBatch *)

\* the call of submission i got as far as save_result's append to the log
LogWritten(i) ==
    runs[i].pc \in {"exists", "write", "returned"}
    \/ (runs[i].pc = "collected" /\ ~runs[i].raised)

\* ... as far as its look at the summary file
CsvRead(i) ==
    runs[i].pc \in {"write", "returned"}
    \/ (runs[i].pc = "collected" /\ ~runs[i].raised)

\* ... as far as its append to the summary file
CsvWritten(i) ==
    runs[i].pc = "returned" \/ (runs[i].pc = "collected" /\ ~runs[i].raised)

WrittenBy(i) ==
    (IF LogWritten(i) THEN {"analysis_log.txt"} ELSE {})
    \cup (IF CsvWritten(i) THEN {"analysis_summary.csv"} ELSE {})

ReadBy(i) == IF CsvRead(i) THEN {"analysis_summary.csv"} ELSE {}

\* C21: the analyze_stock runs a pool runs side by side share no mutable
\* state: no run reads or writes a resource that another run writes.
C21_NoSharedMutableState ==
    parallel =>
        \A i, j \in DOMAIN runs :
            i # j => WrittenBy(j) \cap (ReadBy(i) \cup WrittenBy(i)) = {}

\* the data rows of the summary
DataRows == SelectSeq(csv.rows, LAMBDA row : row # CsvHeader)

\* C30: after the save_result calls of the worker threads, starting with no
\* summary file, the file holds the header exactly once, as its first row,
\* followed by exactly one data row per completed ticker.
C30_HeaderOnceThenRows ==
    (Returned /\ parallel /\ csv.exists) =>
        /\ csv.rows[1] = CsvHeader
        /\ \A k \in 2..Len(csv.rows) : csv.rows[k] # CsvHeader
        /\ Len(csv.rows) =
              1 + Cardinality({i \in DOMAIN runs : ~runs[i].raised})
        /\ \A i \in DOMAIN runs :
              ~runs[i].raised =>
                  \E k \in 2..Len(csv.rows) :
                      csv.rows[k] = CsvRowOf(tickers[i], runs[i].parsed_data.val)

----------------------------------------------------------------------------
(* Claims about failures and degraded results of one run, under Spec *)

\* the price or the fundamentals provider raised during the run
ProviderFailed == hist.raises \/ info.raises

\* C22: a provider exception during a ticker's run makes the run's result a
\* failure: the run is never reported as 'completed'.
C22_ProviderFailureFails ==
    (ProviderFailed /\ Saved /\ mode = "cli") =>
        AnalyzeStockReturn(record).status = "failed"

\* C23: every run that completes yields a record whose decision is one of
\* BUY, SELL, WATCH, AVOID and whose confidence and risk are one of HIGH,
\* MEDIUM, LOW, whatever text the decision task returned.
C23_RecordInRange ==
    Saved =>
        /\ record.decision \in {"BUY", "SELL", "WATCH", "AVOID"}
        /\ record.confidence \in Levels
        /\ record.risk \in Levels

\* C25: a metric the fundamentals tool filled from the sector averages still
\* counts as missing: the output carries the missing-data marker and names
\* every such metric.
C25_FallbackStillMissing ==
    (pc \notin {"price", "fundamentals"} /\ fundOut.status = "ok") =>
        \A m \in fundOut.estimated :
            /\ fundOut.marker
            /\ \E k \in DOMAIN fundOut.missing : fundOut.missing[k] = m

\* C29: the downgrade changes the confidence only: decision and risk are
\* as parsed, a confidence of LOW or UNKNOWN is kept, and without a marker
\* in the final text the confidence is kept too.
C29_DowngradeFrame ==
    Saved =>
        /\ record.decision = parsed.decision
        /\ record.risk = parsed.risk
        /\ parsed.confidence \in {"LOW", "UNKNOWN"} =>
              record.confidence = parsed.confidence
        /\ ~Detected => record.confidence = parsed.confidence

\* a marker in the text, no confidence line: UNKNOWN is kept, and so is the
\* risk HIGH
C29_UnknownKeptReached ==
    /\ Saved
    /\ Detected
    /\ parsed = [decision |-> "BUY", confidence |-> "UNKNOWN", risk |-> "HIGH"]
    /\ record = parsed

----------------------------------------------------------------------------
(* The two copies of the scorer, under SpecScore *)

\* C26: for every (pe_ratio, roe, debt_equity, sector) the scorer of tools.py
\* and the scorer of tools_hybrid.py return the same raw score,
\* max_possible, normalized score, explanations and warnings.
C26_ScorersEquivalent ==
    Scored =>
        scoreOut = ToolsCalculateValueScore(scoreIn.pe_ratio, scoreIn.roe,
                                            scoreIn.debt_equity, scoreIn.sector)

\* a call where the sector's own benchmark decides and one metric is
\* skipped: Technology, D/E 50 is elevated (normal debt under the default)
C26_SectorRowReached ==
    /\ Scored
    /\ scoreIn.sector = "Technology"
    /\ scoreIn.debt_equity = Num(50)
    /\ scoreIn.pe_ratio = None
    /\ scoreIn.roe = Num(21)
    /\ ToolsCalculateValueScore(None, Num(21), Num(50), "Technology").score = 45
    /\ scoreOut.score = 45
    /\ scoreOut.max_possible = 65
    /\ scoreOut.normalized_score = 69

----------------------------------------------------------------------------
(* The parser and the two paths, under SpecParse *)

TagFree(text) ==
    \A n \in DOMAIN text : \A k \in DOMAIN text[n] :
        text[n][k] \notin {"<r>", "</r>", "FINAL <r>DECISION:"}

\* C27: on every final text without <r> and </r> the endpoint and the CLI
\* path extract the same (decision, confidence, risk) after the downgrade:
\* the record of the path taken is the record the other path computes.
C27_PathsAgree ==
    (Saved /\ TagFree(finalText)) =>
        record = (IF mode = "cli"
                  THEN ApiAnalyzeRecord(finalText).record
                  ELSE SaveResultRecord(finalText).record)

\* the endpoint on a text with blanks, a label inside a word and a marker:
\* HIGH from HIGHLIGHTS, downgraded to MEDIUM, as save_result has it
C27_DowngradedAlikeReached ==
    /\ Saved
    /\ mode = "api"
    /\ finalText = << <<Space>>,
                      <<Space, "Confidence:", "HIGHLIGHTS", Space>>,
                      <<"missing data", "for", "ROE">> >>
    /\ record = [decision |-> "UNKNOWN", confidence |-> "MEDIUM",
                 risk |-> "UNKNOWN"]
    /\ SaveResultRecord(finalText).record = record

\* the text the parser of the path taken scans
UpperText == [n \in DOMAIN Scanned |-> UpperLine(Scanned[n])]

\* the lines holding the marker and at least one of the labels
Hits(marker, labels) ==
    {n \in DOMAIN UpperText :
        /\ In(marker, UpperText[n])
        /\ \E i \in DOMAIN labels : In(labels[i], UpperText[n])}

\* the first label, in the order of the list, inside the last such line
LastHit(marker, labels) ==
    IF Hits(marker, labels) = {} THEN "UNKNOWN"
    ELSE LET n == CHOOSE n \in Hits(marker, labels) :
                      \A m \in Hits(marker, labels) : m <= n
             i == CHOOSE i \in DOMAIN labels :
                      /\ In(labels[i], UpperText[n])
                      /\ \A j \in 1..(i - 1) : ~In(labels[j], UpperText[n])
         IN labels[i]

\* C28: each parsed field is the first label, in the fixed order and as a
\* substring, of the last line that holds the field's marker and at least
\* one label, and UNKNOWN when there is no such line.
C28_LastLineFixedOrder ==
    Saved =>
        /\ parsed.decision =
               LastHit("FINAL DECISION:", <<"BUY", "SELL", "WATCH", "AVOID">>)
        /\ parsed.confidence = LastHit("CONFIDENCE:", <<"HIGH", "MEDIUM", "LOW">>)
        /\ parsed.risk = LastHit("RISK LEVEL:", <<"HIGH", "MEDIUM", "LOW">>)

\* BUY on the first line, then WATCH before SELL on a later line, then a
\* marker without label: SELL is kept
C28_OrderBeatsPositionReached ==
    /\ Saved
    /\ mode = "cli"
    /\ finalText = << <<"FINAL DECISION:", "BUY">>,
                      <<"Final Decision:", "WATCH", "or", "SELL">>,
                      <<"FINAL DECISION:", "pending">> >>
    /\ parsed = [decision |-> "SELL", confidence |-> "UNKNOWN",
                 risk |-> "UNKNOWN"]

----------------------------------------------------------------------------
(* The entry points, under SpecEntry *)

\* nothing but blanks was typed or posted
Blank(raw) == \A k \in DOMAIN raw : raw[k] = Space

\* a task, a crew, a log entry or a CSV row exists for the ticker
PipelineStarted ==
    \/ pc \notin {"entry", "rejected"}
    \/ log # <<>>
    \/ csv.rows # <<>>

\* C24: an empty or whitespace-only ticker is rejected before the pipeline
\* starts on every entry point: the caller gets an error and no task, crew,
\* log entry or CSV row is created for it.
C24_BlankTickerRejected ==
    (Blank(entry.raw) /\ pc # "entry") =>
        /\ pc = "rejected"
        /\ entry.response # ""
        /\ ~PipelineStarted

====
